---------------------------- MODULE Spec2Model ----------------------------
(***************************************************************************)
(* A model of zipinfo.js: the central-directory parser ZipInfo.getEntries  *)
(* (the base definition and the later ZIP64-capable definition of          *)
(* zipinfo.js) and the request orchestration of                            *)
(* ZipInfo.runGetEntriesOverHttp.                                          *)
(*                                                                         *)
(* Byte buffers (Uint8Array) keep their true lengths and offsets: a buffer *)
(* is a record [length, bytes] whose "bytes" lists only the non-zero bytes *)
(* (position -> value); every other position below "length" holds 0.       *)
(*                                                                         *)
(* JavaScript numbers read from a buffer can exceed the checker's 32-bit   *)
(* integers, so a number that is stored in a result (uncompressedSize,     *)
(* centralDirectoryStart) is kept exactly as its four 16-bit limbs, most   *)
(* significant first: <<0, 0, 1, 4464>> is 70000.                          *)
(***************************************************************************)
EXTENDS Integers, Sequences, FiniteSets, TLC

VARIABLES
    \* ---- one call of getEntries (ParserSpec)
    zip,              \* description of the file the call's data is cut from
    data,             \* the Uint8Array handed to getEntries
    dataStartOffset,  \* the second argument (Undefined when omitted)
    callee,           \* which definition was called: "none", "base", "zip64"
    returned,         \* the outcome of the call
    decodeCalls,      \* arguments of the _decodeFilename calls, in order
    returnedAgain,    \* the outcome of a second call with the same arguments
    TextDecoderAvailable, \* typeof TextDecoder == 'function' in this environment
    \* ---- one call of runGetEntriesOverHttp (Spec)
    served,           \* the file behind the URL
    requests,         \* requests handed to sendHttpRequest, in order
    x,                \* the handle returned for the initial request (0: unset)
    length,           \* closure variable of onHeadersReceived
    start,            \* closure variable of onHeadersReceived
    abortCalls,       \* indices of the requests abort() was called on, in order
    gotEntries,       \* arguments onGotEntries was invoked with, in order
    uncaught,         \* exceptions that escaped a callback, in order
    headerEvents,     \* number of onHeadersReceived deliveries so far
    lastHeaders,      \* the headers of the latest delivery
    calls,            \* sendHttpRequest, abort and onGotEntries calls, in order
    \* ---- what runs the requests, and a second top-level call
    transport,        \* which sendHttpRequest: "contract", "browser",
                      \* "greasemonkey" (and its older sources),
                      \* "synchronous"; "xhr": the XHR-based getRemoteEntries
    lateEvents,       \* events fired by request objects after abort()
    other             \* the session of a second, concurrent top-level call

parserVars == <<zip, data, dataStartOffset, callee, returned, decodeCalls,
                returnedAgain>>
httpVars == <<served, requests, x, length, start, abortCalls, gotEntries,
              uncaught, headerEvents, lastHeaders, calls,
              transport, lateEvents, other>>
vars == <<zip, data, dataStartOffset, callee, returned, decodeCalls,
          returnedAgain, TextDecoderAvailable,
          served, requests, x, length, start, abortCalls, gotEntries,
          uncaught, headerEvents, lastHeaders, calls,
          transport, lateEvents, other>>

-----------------------------------------------------------------------------
(* Numbers *)

\* The JavaScript value undefined, where a number is expected.
Undefined == 0 - 1

\* Stands for every integer of 2^31 or more in index arithmetic; buffers and
\* offsets of the model stay far below it.
Huge == 32767 * 65536

Num(k) == <<0, 0, k \div 65536, k % 65536>>

IsSmall(n) == n[1] = 0 /\ n[2] = 0 /\ n[3] < 32767

ToInt(n) == IF IsSmall(n) THEN n[3] * 65536 + n[4] ELSE Huge

Max32 == <<0, 0, 65535, 65535>>

SetMax(S) == CHOOSE m \in S : \A o \in S : o <= m

SetMin(S) == CHOOSE m \in S : \A o \in S : m <= o

-----------------------------------------------------------------------------
(* Uint8Array and DataView *)

NoBytes == [p \in {} |-> 0]

\* data[i]: undefined outside the array.
Byte(d, i) ==
    IF i \in DOMAIN d.bytes THEN d.bytes[i]
    ELSE IF i >= 0 /\ i < d.length THEN 0 ELSE Undefined

\* DataView throws a RangeError for a read that leaves the view.
InView(d, o, w) == o >= 0 /\ o + w <= d.length

\* view.getUint16(o, true)
getUint16(d, o) == Byte(d, o) + 256 * Byte(d, o + 1)

\* view.getUint32(o, true)
getUint32(d, o) == <<0, 0, getUint16(d, o + 2), getUint16(d, o)>>

\* data.subarray(from, to) as the sequence of its bytes (clamped to the array).
subarray(d, from, to) ==
    LET f == IF from > d.length THEN d.length ELSE from
        t == IF to > d.length THEN d.length ELSE to
    IN  IF t <= f THEN <<>> ELSE [k \in 1..(t - f) |-> Byte(d, f + k - 1)]

\* new Uint8Array(buffer, k): the bytes from position k on.
SliceFrom(d, k) ==
    IF k >= d.length THEN [length |-> 0, bytes |-> NoBytes]
    ELSE [length |-> d.length - k,
          bytes |-> [p \in {q - k : q \in {r \in DOMAIN d.bytes : r >= k}}
                        |-> d.bytes[p + k]]]


-----------------------------------------------------------------------------
(* ZipInfo._decodeFilename: text is a sequence of code points.  The byte     *)
(* values the model puts in names are below 0xE0, so UTF-8 sequences are at  *)
(* most two bytes long; a byte that starts or continues no sequence decodes  *)
(* to U+FFFD.                                                                *)

IsContinuation(b) == b >= 128 /\ b <= 191

IsLead2(b) == b >= 194 /\ b <= 223

DecodeUtf8(s) ==
    LET n == Len(s)
        cp(k) ==
            IF s[k] < 128 THEN s[k]
            ELSE IF IsLead2(s[k]) /\ k < n /\ IsContinuation(s[k + 1])
                 THEN (s[k] - 192) * 64 + (s[k + 1] - 128)
            ELSE IF IsContinuation(s[k]) /\ k > 1 /\ IsLead2(s[k - 1])
                 THEN Undefined     \* consumed by the lead byte before it
            ELSE 65533
    IN  SelectSeq([k \in 1..n |-> cp(k)], LAMBDA c : c /= Undefined)

\* new Buffer(filename).toString(utfLabel): 'ascii' drops the high bit.
BufferToString(filename, utfLabel) ==
    IF utfLabel = "utf-8" THEN DecodeUtf8(filename)
    ELSE [k \in 1..Len(filename) |-> filename[k] % 128]

\* new TextDecoder(utfLabel).decode(filename): the label 'ascii' selects
\* windows-1252 (of its 0x80..0x9F block only 0x80 occurs in the model).
TextDecoderDecode(filename, utfLabel) ==
    IF utfLabel = "utf-8" THEN DecodeUtf8(filename)
    ELSE [k \in 1..Len(filename) |->
             IF filename[k] = 128 THEN 8364 ELSE filename[k]]

_decodeFilename(filename, utfLabel) ==
    IF TextDecoderAvailable THEN TextDecoderDecode(filename, utfLabel)
    ELSE BufferToString(filename, utfLabel)

\* filename.endsWith('/')
endsWithSlash(filename) ==
    Len(filename) > 0 /\ filename[Len(filename)] = 47

\* 'utf-8' for every flags value from 0x800 on.
utfLabelOfHighFlags(bitFlag) ==
    IF bitFlag >= 2048 THEN "utf-8" ELSE "ascii"

\* (bitFlag & 0x800) ? 'utf-8' : 'ascii'
utfLabelOf(bitFlag) ==
    IF (bitFlag \div 2048) % 2 = 1 THEN "utf-8" ELSE "ascii"

-----------------------------------------------------------------------------
(* ZipInfo.getEntries, the base definition *)

Threw(name) == [kind |-> "throw", error |-> name, entries |-> <<>>]

Returned(list) == [kind |-> "list", error |-> "", entries |-> list]

ReturnedUndefined == [kind |-> "undefined", error |-> "", entries |-> <<>>]

NotCalled == [kind |-> "none", error |-> "", entries |-> <<>>]

\* The loop "for (i = data.length - 22, ii = Math.max(0, i - 0xFFFF); i >= ii;
\* --i)" stops at the first, that is the greatest, i of its range at which the
\* signature 50 4B 05 06 starts; no such i: -1.  A signature starts at a
\* non-zero byte, so only the listed bytes are candidates.
EOCDWindowTop(d) == d.length - 22

EOCDWindowBottom(d) ==
    IF EOCDWindowTop(d) - 65535 > 0 THEN EOCDWindowTop(d) - 65535 ELSE 0

IsEOCDSignature(d, i) ==
    /\ Byte(d, i) = 80
    /\ Byte(d, i + 1) = 75
    /\ Byte(d, i + 2) = 5
    /\ Byte(d, i + 3) = 6

\* The search taking the first signature of the window instead of the last.
FindEOCDFirst(d) ==
    LET hits == {i \in DOMAIN d.bytes :
                    /\ i >= EOCDWindowBottom(d)
                    /\ i <= EOCDWindowTop(d)
                    /\ IsEOCDSignature(d, i)}
    IN  IF hits = {} THEN 0 - 1 ELSE SetMin(hits)

\* for (var i = data.length - 22, ii = Math.max(0, i - 0xFFFF); i >= ii; --i)
FindEOCD(d) ==
    LET hits == {i \in DOMAIN d.bytes :
                    /\ i >= EOCDWindowBottom(d)
                    /\ i <= EOCDWindowTop(d)
                    /\ IsEOCDSignature(d, i)}
    IN  IF hits = {} THEN 0 - 1 ELSE SetMax(hits)

\* The offset as the EOCD record names it, whatever the data starts at.
TranslateIgnoringHint(offset, dso) ==
    IF ~IsSmall(offset) THEN Huge ELSE ToInt(offset)

\* "if (dataStartOffset) { offset -= dataStartOffset; }" on a stored number.
Translate(offset, dso) ==
    IF ~IsSmall(offset) THEN Huge
    ELSE IF dso = Undefined \/ dso = 0 THEN ToInt(offset)
    ELSE ToInt(offset) - dso

\* No recovery, wherever the offset lies.
NeverRecovers(d, offset) == FALSE

\* offset >= data.length || offset <= 0
NeedsRecovery(d, offset) == offset >= d.length \/ offset <= 0

\* The condition under which the recovery loop goes on at position o.
RecoveryContinues(d, o) ==
    /\ Byte(d, o) /= 80
    /\ Byte(d, o + 1) /= 75
    /\ Byte(d, o + 2) /= 1
    /\ Byte(d, o + 3) /= 2

\* A scan for the four bytes 50 4B 01 02 together.
RecoveryScanForSignature(d) ==
    LET hits == {o \in DOMAIN d.bytes :
                    /\ Byte(d, o) = 80
                    /\ Byte(d, o + 1) = 75
                    /\ Byte(d, o + 2) = 1
                    /\ Byte(d, o + 3) = 2}
    IN  IF hits = {} THEN d.length ELSE SetMin(hits)

\* "offset = -1; while (++offset < data.length && ...);": the smallest
\* position at which the loop condition fails.  Where all four bytes are zero
\* the loop goes on, so only positions next to a listed byte can stop it.
RecoveryScan(d) ==
    LET near == {p - k : p \in DOMAIN d.bytes, k \in 0..3}
        stops == {o \in near : o >= 0 /\ o < d.length /\ ~RecoveryContinues(d, o)}
    IN  IF stops = {} THEN d.length ELSE SetMin(stops)

\* The end of the entry loop's range without the margin of one record.
EntryEndNoMargin(endoffset) == endoffset

\* endoffset -= 46
EntryEnd(endoffset) == endoffset - 46

\* A check of the first two bytes, 50 4B, only.
IsEntrySignatureStart(d, o) == Byte(d, o) = 80 /\ Byte(d, o + 1) = 75

\* view.getUint32(offset) != 0x504b0102 (a big-endian read)
IsEntrySignature(d, o) ==
    /\ Byte(d, o) = 80
    /\ Byte(d, o + 1) = 75
    /\ Byte(d, o + 2) = 1
    /\ Byte(d, o + 3) = 2

\* The arguments of "ZipInfo._decodeFilename(filename, utfLabel)" for the
\* record at offset o.
DecodeCallAt(d, o) ==
    LET bitFlag == getUint16(d, o + 8)
        fileNameLength == getUint16(d, o + 28)
    IN  [filename |-> subarray(d, o + 46, o + 46 + fileNameLength),
         utfLabel |-> utfLabelOf(bitFlag)]

\* An entry whose size is zeroed when its name ends with '/'.
EntryAtZeroDirectory(d, o) ==
    LET filename == _decodeFilename(DecodeCallAt(d, o).filename,
                                    DecodeCallAt(d, o).utfLabel)
    IN  [directory |-> endsWithSlash(filename), filename |-> filename,
         uncompressedSize |-> IF endsWithSlash(filename) THEN Num(0)
                              ELSE getUint32(d, o + 24)]

\* The object pushed for the record at offset o.
EntryAt(d, o) ==
    LET filename == _decodeFilename(DecodeCallAt(d, o).filename,
                                    DecodeCallAt(d, o).utfLabel)
    IN  [directory |-> endsWithSlash(filename),
         filename |-> filename,
         uncompressedSize |-> getUint32(d, o + 24)]

\* A step over one byte and the three variable parts of the record, without
\* the 46 bytes every record has.
NextEntryOffsetVariableParts(d, o) ==
    o + 1 + getUint16(d, o + 28) + getUint16(d, o + 30) + getUint16(d, o + 32)

\* offset += 46 + fileNameLength + extraFieldLength + fileCommentLength
NextEntryOffset(d, o) ==
    o + 46 + getUint16(d, o + 28) + getUint16(d, o + 30) + getUint16(d, o + 32)

\* The reads of one iteration all lie in [offset, offset + 46).
EntryReadsInView(d, o) ==
    /\ InView(d, o, 4)
    /\ InView(d, o + 8, 2)
    /\ InView(d, o + 24, 4)
    /\ InView(d, o + 28, 2)
    /\ InView(d, o + 30, 2)
    /\ InView(d, o + 32, 2)

RECURSIVE EntryLoop(_, _, _, _, _)
\* while (--entriesLeft >= 0 && offset < endoffset) { ... }
EntryLoop(d, offset, entriesLeft, endoffset, entries) ==
    IF ~(entriesLeft - 1 >= 0 /\ offset < endoffset) THEN Returned(entries)
    ELSE IF ~InView(d, offset, 4) THEN Threw("RangeError")
    ELSE IF ~IsEntrySignature(d, offset) THEN Returned(entries)
    ELSE IF ~EntryReadsInView(d, offset) THEN Threw("RangeError")
    ELSE EntryLoop(d, NextEntryOffset(d, offset), entriesLeft - 1, endoffset,
                   Append(entries, EntryAt(d, offset)))

RECURSIVE DecodeCallsLoop(_, _, _, _, _)
\* The _decodeFilename calls of the loop: one in each iteration that gets
\* past the signature check and the reads before the call.
DecodeCallsLoop(d, offset, entriesLeft, endoffset, made) ==
    IF ~(entriesLeft - 1 >= 0 /\ offset < endoffset) THEN made
    ELSE IF ~InView(d, offset, 4) THEN made
    ELSE IF ~IsEntrySignature(d, offset) THEN made
    ELSE IF ~EntryReadsInView(d, offset) THEN made
    ELSE DecodeCallsLoop(d, NextEntryOffset(d, offset), entriesLeft - 1,
                         endoffset, Append(made, DecodeCallAt(d, offset)))

RootEntry(offset) ==
    [directory |-> TRUE, filename |-> <<47>>, uncompressedSize |-> Num(0),
     centralDirectoryStart |-> offset]

\* The _decodeFilename calls of getEntries(d, dso).
DecodeCalls(d, dso) ==
    LET i == FindEOCD(d)
        found == i >= 0
        endoffset == IF found THEN i ELSE d.length
    IN  IF found /\ ~(InView(d, i + 16, 4) /\ InView(d, i + 8, 2))
        THEN <<>>
        ELSE
        LET offset0 == IF found THEN getUint32(d, i + 16) ELSE Num(0)
            entriesLeft0 == IF found THEN getUint16(d, i + 8) ELSE 0
            translated == Translate(offset0, dso)
            recover == NeedsRecovery(d, translated)
            offset == IF recover THEN RecoveryScan(d) ELSE translated
            entriesLeft == IF recover THEN 65535 ELSE entriesLeft0
        IN  DecodeCallsLoop(d, offset, entriesLeft, EntryEnd(endoffset), <<>>)

getEntries(d, dso) ==
    LET i == FindEOCD(d)
        found == i >= 0
        endoffset == IF found THEN i ELSE d.length
    IN  IF found /\ ~(InView(d, i + 16, 4) /\ InView(d, i + 8, 2))
        THEN Threw("RangeError")
        ELSE
        LET offset0 == IF found THEN getUint32(d, i + 16) ELSE Num(0)
            entriesLeft0 == IF found THEN getUint16(d, i + 8) ELSE 0
            translated == Translate(offset0, dso)
            recover == NeedsRecovery(d, translated)
            offset == IF recover THEN RecoveryScan(d) ELSE translated
            entriesLeft == IF recover THEN 65535 ELSE entriesLeft0
        IN  EntryLoop(d, offset, entriesLeft, EntryEnd(endoffset),
                      <<RootEntry(offset0)>>)


-----------------------------------------------------------------------------
(* ZipInfo.getEntries, the later (ZIP64-capable) definition, and             *)
(* ZipInfo.getUint64.  It is the definition in effect where                  *)
(* runGetEntriesOverHttp is defined.                                         *)

\* left + 2**32 * right, kept exactly (JavaScript rounds it above 2^53).
getUint64(d, o) ==
    <<getUint16(d, o + 6), getUint16(d, o + 4), getUint16(d, o + 2),
      getUint16(d, o)>>

Uint64InView(d, o) == InView(d, o, 4) /\ InView(d, o + 4, 4)

\* 0x07064b50 and 0x06064b50
Zip64LocatorSignature == <<0, 0, 7 * 256 + 6, 75 * 256 + 80>>

Zip64RecordSignature == <<0, 0, 6 * 256 + 6, 75 * 256 + 80>>

\* offset === 0xFFFFFFFF || entriesLeft === 0xFFFF
IsZip64(offset, entriesLeft) == offset = Max32 \/ entriesLeft = 65535

\* viewOffset = zip64Offset - dataStartOffset, as the byte index DataView
\* makes of it: NaN (dataStartOffset omitted) reads at index 0, and so does
\* NaN + 32 and NaN + 48.
ViewIndex(zip64Offset, dso, plus) ==
    IF dso = Undefined THEN 0
    ELSE IF ~IsSmall(zip64Offset) THEN Huge
    ELSE ToInt(zip64Offset) - dso + plus

\* ZipInfo.getUint64(view, viewOffset + plus, true): with viewOffset NaN both
\* halves are read at index 0 (byteOffset + 4 is NaN as well).
getUint64From(d, o, dso) ==
    IF dso = Undefined
    THEN <<getUint16(d, 2), getUint16(d, 0), getUint16(d, 2), getUint16(d, 0)>>
    ELSE getUint64(d, o)

\* The ZIP64 block: the record's entry count and offset, or the way the call
\* ends there.
Zip64Header(d, dso, endoffset) ==
    IF ~InView(d, endoffset - 20, 4) THEN Threw("RangeError")
    ELSE IF getUint32(d, endoffset - 20) /= Zip64LocatorSignature
         THEN ReturnedUndefined
    ELSE IF ~Uint64InView(d, endoffset - 12) THEN Threw("RangeError")
    ELSE
    LET zip64Offset == getUint64(d, endoffset - 12)
        at(plus) == ViewIndex(zip64Offset, dso, plus)
    IN  IF ~InView(d, at(0), 4) THEN Threw("RangeError")
        ELSE IF getUint32(d, at(0)) /= Zip64RecordSignature
             THEN ReturnedUndefined
        ELSE IF ~Uint64InView(d, at(32)) \/ ~Uint64InView(d, at(48))
             THEN Threw("RangeError")
        ELSE [kind |-> "zip64", error |-> "", entries |-> <<>>,
              entriesLeft |-> getUint64From(d, at(32), dso),
              offset |-> getUint64From(d, at(48), dso)]

\* One field of the zip64 extra info block: "if (v === 0xFFFFFFFF && size >=
\* 8) { v = getUint64(...); extraFieldOffset += 8; size -= 8; }" applied to
\* the state [threw, at, size].
TakesUint64(v, st) == ~st.threw /\ v = Max32 /\ st.size >= 8

AfterUint64(d, v, st) ==
    IF ~TakesUint64(v, st) THEN st
    ELSE IF ~Uint64InView(d, st.at) THEN [st EXCEPT !.threw = TRUE]
    ELSE [st EXCEPT !.at = @ + 8, !.size = @ - 8]

ValueAfter(d, v, st) ==
    IF TakesUint64(v, st) /\ Uint64InView(d, st.at) THEN getUint64(d, st.at)
    ELSE v

RECURSIVE ExtraFieldLoop(_, _, _, _)
\* while (extraFieldOffset < efEnd) { ... } over f = [uncompressedSize,
\* compressedSize, localEntryOffset, threw].
ExtraFieldLoop(d, extraFieldOffset, efEnd, f) ==
    IF ~(extraFieldOffset < efEnd) THEN f
    ELSE IF ~InView(d, extraFieldOffset, 2) \/ ~InView(d, extraFieldOffset + 2, 2)
         THEN [f EXCEPT !.threw = TRUE]
    ELSE
    LET type == getUint16(d, extraFieldOffset)
        s0 == [threw |-> FALSE, at |-> extraFieldOffset + 4,
               size |-> getUint16(d, extraFieldOffset + 2)]
        s1 == AfterUint64(d, f.uncompressedSize, s0)
        s2 == AfterUint64(d, f.compressedSize, s1)
        s3 == AfterUint64(d, f.localEntryOffset, s2)
    IN  IF type /= 1
        THEN ExtraFieldLoop(d, s0.at + s0.size, efEnd, f)
        ELSE IF s3.threw THEN [f EXCEPT !.threw = TRUE]
        ELSE ExtraFieldLoop(d, s3.at + s3.size, efEnd,
                 [threw |-> FALSE,
                  uncompressedSize |-> ValueAfter(d, f.uncompressedSize, s0),
                  compressedSize |-> ValueAfter(d, f.compressedSize, s1),
                  localEntryOffset |-> ValueAfter(d, f.localEntryOffset, s2)])

\* The sizes and the local header offset of the record at o, after the ZIP64
\* extra field was applied where one of them is 0xFFFFFFFF.
Zip64Fields(d, o) ==
    LET f == [threw |-> FALSE,
              uncompressedSize |-> getUint32(d, o + 24),
              compressedSize |-> getUint32(d, o + 20),
              localEntryOffset |-> getUint32(d, o + 42)]
        extraFieldOffset == o + 46 + getUint16(d, o + 28)
        efEnd == extraFieldOffset + getUint16(d, o + 30) - 3
    IN  IF \/ f.compressedSize = Max32
           \/ f.uncompressedSize = Max32
           \/ f.localEntryOffset = Max32
        THEN ExtraFieldLoop(d, extraFieldOffset, efEnd, f)
        ELSE f

\* An entry that carries compressedSize and localEntryOffset whatever
\* includeOffset is.
EntryAtZip64WithOffsets(d, o, f, includeOffset) ==
    [directory |-> EntryAt(d, o).directory, filename |-> EntryAt(d, o).filename,
     uncompressedSize |-> f.uncompressedSize,
     compressedSize |-> f.compressedSize,
     localEntryOffset |-> f.localEntryOffset]

EntryAtZip64(d, o, f, includeOffset) ==
    LET e == EntryAt(d, o)
    IN  IF includeOffset
        THEN [directory |-> e.directory, filename |-> e.filename,
              uncompressedSize |-> f.uncompressedSize,
              compressedSize |-> f.compressedSize,
              localEntryOffset |-> f.localEntryOffset]
        ELSE [e EXCEPT !.uncompressedSize = f.uncompressedSize]

EntryReadsInViewZip64(d, o) ==
    /\ EntryReadsInView(d, o)
    /\ InView(d, o + 20, 4)
    /\ InView(d, o + 42, 4)

RECURSIVE EntryLoopZip64(_, _, _, _, _, _)
EntryLoopZip64(d, offset, entriesLeft, endoffset, entries, includeOffset) ==
    IF ~(entriesLeft - 1 >= 0 /\ offset < endoffset) THEN Returned(entries)
    ELSE IF ~InView(d, offset, 4) THEN Threw("RangeError")
    ELSE IF ~IsEntrySignature(d, offset) THEN Returned(entries)
    ELSE IF ~EntryReadsInViewZip64(d, offset) THEN Threw("RangeError")
    ELSE LET f == Zip64Fields(d, offset)
         IN  IF f.threw THEN Threw("RangeError")
             ELSE EntryLoopZip64(d, NextEntryOffset(d, offset), entriesLeft - 1,
                      endoffset,
                      Append(entries, EntryAtZip64(d, offset, f, includeOffset)),
                      includeOffset)

RECURSIVE DecodeCallsLoopZip64(_, _, _, _, _)
\* The _decodeFilename calls of the later definition's loop; the call comes
\* before the read of the local header offset and the ZIP64 extra field.
DecodeCallsLoopZip64(d, offset, entriesLeft, endoffset, made) ==
    IF ~(entriesLeft - 1 >= 0 /\ offset < endoffset) THEN made
    ELSE IF ~InView(d, offset, 4) THEN made
    ELSE IF ~IsEntrySignature(d, offset) THEN made
    ELSE IF ~(EntryReadsInView(d, offset) /\ InView(d, offset + 20, 4))
         THEN made
    ELSE IF ~InView(d, offset + 42, 4) \/ Zip64Fields(d, offset).threw
         THEN Append(made, DecodeCallAt(d, offset))
    ELSE DecodeCallsLoopZip64(d, NextEntryOffset(d, offset), entriesLeft - 1,
                              endoffset, Append(made, DecodeCallAt(d, offset)))

\* The _decodeFilename calls of getEntries(d, dso, includeOffset).
DecodeCallsZip64(d, dso) ==
    LET i == FindEOCD(d)
        found == i >= 0
        endoffset == IF found THEN i ELSE d.length
    IN  IF found /\ ~(InView(d, i + 16, 4) /\ InView(d, i + 8, 2))
        THEN <<>>
        ELSE
        LET offset32 == IF found THEN getUint32(d, i + 16) ELSE Num(0)
            entriesLeft16 == IF found THEN getUint16(d, i + 8) ELSE 0
            zip64 == IF IsZip64(offset32, entriesLeft16)
                     THEN Zip64Header(d, dso, endoffset)
                     ELSE [kind |-> "zip64", error |-> "", entries |-> <<>>,
                           entriesLeft |-> Num(entriesLeft16),
                           offset |-> offset32]
        IN  IF zip64.kind /= "zip64" THEN <<>>
            ELSE
            LET translated == Translate(zip64.offset, dso)
                recover == NeedsRecovery(d, translated)
                offset == IF recover THEN RecoveryScan(d) ELSE translated
                entriesLeft == IF recover THEN 65535
                               ELSE ToInt(zip64.entriesLeft)
            IN  DecodeCallsLoopZip64(d, offset, entriesLeft,
                                     EntryEnd(endoffset), <<>>)

getEntriesZip64(d, dso, includeOffset) ==
    LET i == FindEOCD(d)
        found == i >= 0
        endoffset == IF found THEN i ELSE d.length
    IN  IF found /\ ~(InView(d, i + 16, 4) /\ InView(d, i + 8, 2))
        THEN Threw("RangeError")
        ELSE
        LET offset32 == IF found THEN getUint32(d, i + 16) ELSE Num(0)
            entriesLeft16 == IF found THEN getUint16(d, i + 8) ELSE 0
            zip64 == IF IsZip64(offset32, entriesLeft16)
                     THEN Zip64Header(d, dso, endoffset)
                     ELSE [kind |-> "zip64", error |-> "", entries |-> <<>>,
                           entriesLeft |-> Num(entriesLeft16),
                           offset |-> offset32]
        IN  IF zip64.kind /= "zip64" THEN zip64
            ELSE
            LET translated == Translate(zip64.offset, dso)
                recover == NeedsRecovery(d, translated)
                offset == IF recover THEN RecoveryScan(d) ELSE translated
                entriesLeft == IF recover THEN 65535
                               ELSE ToInt(zip64.entriesLeft)
            IN  EntryLoopZip64(d, offset, entriesLeft, EntryEnd(endoffset),
                               <<RootEntry(zip64.offset)>>, includeOffset)

-----------------------------------------------------------------------------
(* Files.  A file is described by its parts and laid out as the ZIP format   *)
(* lays them out: "prefix" bytes of local data (zeros), the central          *)
(* directory records, "gap" zero bytes, the EOCD record and its comment;     *)
(* "patches" overwrite single bytes afterwards.  form = "blank" is a buffer  *)
(* of "prefix" zero bytes (plus patches) with no record at all.              *)

LE16(v) == <<v % 256, v \div 256>>

LE32(n) == LE16(n[4]) \o LE16(n[3])

Zeros(n) == [k \in 1..n |-> 0]

RecordNameLength(r) == Len(r.name)

RecordExtraLength(r) == Len(r.extra) + r.extraPad

RecordCommentLength(r) == Len(r.comment) + r.commentPad

RecordSize(r) ==
    46 + RecordNameLength(r) + RecordExtraLength(r) + RecordCommentLength(r)

\* The fixed 46 bytes of a record, then its name and the written bytes of its
\* extra field (the padding after them is zeros).
RecordBytes(r) ==
    <<80, 75, 1, 2>> \o Zeros(4) \o LE16(r.flags) \o Zeros(10)
    \o LE32(r.compressedSize) \o LE32(r.uncompressedSize)
    \o LE16(RecordNameLength(r)) \o LE16(RecordExtraLength(r))
    \o LE16(RecordCommentLength(r)) \o Zeros(8) \o LE32(r.localOffset)
    \o r.name \o r.extra

\* The non-zero (position, byte) pairs a byte sequence written at "at" gives.
Written(at, seq) ==
    {<<at + k - 1, seq[k]>> : k \in {j \in 1..Len(seq) : seq[j] /= 0}}

RecordWritten(r, at) ==
    Written(at, RecordBytes(r))
    \cup Written(at + 46 + RecordNameLength(r) + RecordExtraLength(r), r.comment)

RECURSIVE DirectorySize(_)
DirectorySize(recs) ==
    IF recs = <<>> THEN 0 ELSE RecordSize(Head(recs)) + DirectorySize(Tail(recs))

\* Where record k of the file starts.
RecordStart(z, k) == z.prefix + DirectorySize(SubSeq(z.records, 1, k - 1))

EOCDStart(z) == z.prefix + DirectorySize(z.records) + z.gap

EOCDCommentLength(z) == Len(z.comment) + z.commentPad

EOCDBytes(z) ==
    <<80, 75, 5, 6>> \o Zeros(4) \o LE16(z.count) \o LE16(z.count)
    \o LE32(Num(DirectorySize(z.records))) \o LE32(z.cdOffset)
    \o LE16(EOCDCommentLength(z)) \o z.comment

FileLength(z) ==
    IF z.form = "blank" THEN z.prefix
    ELSE EOCDStart(z) + 22 + EOCDCommentLength(z)

FileBytes(z) ==
    LET laid == IF z.form = "blank" THEN {}
                ELSE UNION {RecordWritten(z.records[k], RecordStart(z, k))
                              : k \in 1..Len(z.records)}
                     \cup Written(EOCDStart(z), EOCDBytes(z))
        at(p) == IF p \in DOMAIN z.patches THEN z.patches[p]
                 ELSE (CHOOSE w \in laid : w[1] = p)[2]
        where == {p \in {w[1] : w \in laid} \cup DOMAIN z.patches :
                     p < FileLength(z) /\ at(p) /= 0}
    IN  [length |-> FileLength(z), bytes |-> [p \in where |-> at(p)]]

NoPatches == [p \in {} |-> 0]

Record(flags, size, name, extra, extraPad, comment, commentPad) ==
    [flags |-> flags, compressedSize |-> size, uncompressedSize |-> size,
     localOffset |-> Num(0), name |-> name, extra |-> extra,
     extraPad |-> extraPad, comment |-> comment, commentPad |-> commentPad]

Archive(prefix, records, gap, comment, commentPad) ==
    [form |-> "archive", prefix |-> prefix, records |-> records, gap |-> gap,
     count |-> Len(records), cdOffset |-> Num(prefix), comment |-> comment,
     commentPad |-> commentPad, patches |-> NoPatches]

Blank(n, patches) ==
    [form |-> "blank", prefix |-> n, records |-> <<>>, gap |-> 0, count |-> 0,
     cdOffset |-> Num(0), comment |-> <<>>, commentPad |-> 0,
     patches |-> patches]


-----------------------------------------------------------------------------
(* The files getEntries is called on *)

\* Records per central directory.
MaxRecords == 2

\* Largest dataStartOffset that is unrelated to the file.
MaxHint == 1000000

rFile == Record(0, Num(100), <<97>>, <<>>, 0, <<>>, 0)

rDir == Record(0, Num(0), <<97, 47>>, <<9>>, 3, <<98>>, 2)

\* 46 bytes: no name, no extra field, no comment.
rBare == Record(0, Num(3), <<>>, <<>>, 0, <<>>, 0)

\* U+00E9 in UTF-8, with and without general purpose bit 11.
rUtf8 == Record(2048, Num(70000), <<195, 169>>, <<>>, 0, <<>>, 0)

rHighBit == Record(0, Num(7), <<195, 175>>, <<>>, 0, <<>>, 1)

RecordPool == {rFile, rDir, rBare, rUtf8, rHighBit}

RecordLists ==
    UNION {[1..n -> RecordPool] : n \in 0..MaxRecords}

\* A comment that holds an EOCD signature, and one whose first two bytes
\* complete the signature begun by its own length field (0x4B50 = 19280).
SignatureComment == <<80, 75, 5, 6>>

WellFormedFiles ==
    {Archive(prefix, recs, 0, comment, 0) :
        prefix \in {1, 30}, recs \in RecordLists, comment \in {<<>>, <<97, 98>>}}

AmbiguousFiles ==
    {Archive(30, recs, 0, SignatureComment, 18) : recs \in {<<rFile>>, <<rDir, rFile>>}}
    \cup {Archive(30, recs, 0, <<5, 6>>, 19278) : recs \in {<<rFile>>, <<rDir, rFile>>}}

\* The EOCD of a well-formed file told to lie, a gap before the EOCD, and a
\* record whose signature is damaged.
LyingFiles ==
    LET z == Archive(30, <<rFile, rDir>>, 0, <<>>, 0)
    IN  {[z EXCEPT !.count = c] : c \in {0, 1, 3, 65535}}
        \cup {[z EXCEPT !.cdOffset = o] :
                 o \in {Num(0), Num(29), Num(31), Num(76), Num(MaxHint), Max32,
                        <<0, 0, 32768, 0>>}}
        \cup {[z EXCEPT !.gap = 5], [z EXCEPT !.prefix = 0, !.cdOffset = Num(0)]}
        \cup {[z EXCEPT !.patches = pt] :
                 pt \in {(30 :> 0), (33 :> 3), (76 :> 81), (10 :> 80),
                         (12 :> 1), (8 :> 2)}}

EntrySignatureAt(p) == (p :> 80) @@ (p + 1 :> 75) @@ (p + 2 :> 1) @@ (p + 3 :> 2)

BlankFiles ==
    {Blank(n, NoPatches) : n \in {0, 1, 21, 22, 23, 65556, 65557, 65558}}
    \cup {Blank(n, EntrySignatureAt(0)) : n \in {4, 10, 45, 46, 47, 100}}
    \cup {Blank(n, (n - 22 :> 80) @@ (n - 21 :> 75) @@ (n - 20 :> 5) @@ (n - 19 :> 6)
                   @@ (n - 6 :> 255) @@ (n - 5 :> 255) @@ (n - 4 :> 255)
                   @@ (n - 3 :> 255)) : n \in {22, 23, 41, 42, 100}}

\* Records with flag bits other than bit 11: encrypted (bit 0), data
\* descriptor (bit 3), every bit but bit 11; a record whose size field is the
\* ZIP64 sentinel; a directory whose size field is not 0.
rEncrypted == Record(1, Num(9), <<101>>, <<>>, 0, <<>>, 0)

rDescriptor == Record(8, Num(11), <<102, 195, 169>>, <<>>, 0, <<>>, 0)

rOtherFlags == Record(65535 - 2048, Num(13), <<195, 169>>, <<>>, 0, <<>>, 0)

rSentinel == Record(0, Max32, <<115>>, <<>>, 0, <<>>, 0)

rSizedDirectory == Record(2048, Num(7), <<100, 47>>, <<>>, 0, <<>>, 0)

FlaggedFiles ==
    {Archive(30, recs, 0, <<>>, 0) :
        recs \in {<<rEncrypted>>, <<rDescriptor, rFile>>, <<rOtherFlags, rUtf8>>,
                  <<rSentinel, rFile>>, <<rSizedDirectory, rFile>>}}

\* Buffers with bytes of the signatures but neither signature whole.
UnsignedFiles ==
    {Blank(n, (0 :> 80)) : n \in {1, 4, 100}}
    \cup {Blank(100, (0 :> 80) @@ (1 :> 75)),
          Blank(100, (50 :> 1) @@ (51 :> 2)),
          Blank(100, (20 :> 80) @@ (21 :> 75) @@ (22 :> 1) @@ (23 :> 6)),
          Blank(65558, (0 :> 80) @@ (1 :> 75) @@ (2 :> 5)),
          Blank(65558, (65536 :> 80) @@ (65537 :> 75) @@ (65538 :> 5)
                       @@ (65539 :> 2))}

\* Zero bytes but for an entry signature at position 5, with no EOCD record;
\* 52 is the least length at which 5 < length - 46.
RecoverableFiles == {Blank(n, EntrySignatureAt(5)) : n \in {10, 51, 52, 100}}

\* Files of 100000 and of 200000 bytes whose EOCD record has a comment of 0,
\* 1, 0xFFFE and 0xFFFF bytes: the record lies at the end of the file, or as
\* far before it as a record can lie.
WindowFiles ==
    {Archive(L - 22 - c - DirectorySize(<<rFile, rDir>>), <<rFile, rDir>>, 0,
             <<>>, c) : L \in {100000, 200000}, c \in {0, 1, 65534, 65535}}

\* An EOCD signature at position p whose record names 7 entries and the
\* central-directory offset 9.
EOCDSignatureAt(p) ==
    (p :> 80) @@ (p + 1 :> 75) @@ (p + 2 :> 5) @@ (p + 3 :> 6)
    @@ (p + 8 :> 7) @@ (p + 16 :> 9)

\* Buffers whose only EOCD signature lies outside the positions the search
\* visits: in a buffer of 21 bytes, one position behind length - 22, one
\* position before length - 22 - 0xFFFF; and an archive whose comment ends
\* with a signature, four bytes before the end of the file.
OutsideWindowFiles ==
    {Blank(21, EOCDSignatureAt(0)),
     Blank(40, EOCDSignatureAt(19)),
     Blank(65600, EOCDSignatureAt(65600 - 22 - 65536)),
     Archive(30, <<rFile>>, 0, Zeros(19) \o SignatureComment, 0)}

ParserFiles ==
    WellFormedFiles \cup AmbiguousFiles \cup LyingFiles \cup BlankFiles
    \cup UnsignedFiles \cup RecoverableFiles \cup FlaggedFiles
    \cup WindowFiles \cup OutsideWindowFiles

\* A window that leaves no room for the 22 bytes of the EOCD record.
SpeculativeStartNoRecord(len) == len - 65535

\* A window one byte shorter.
SpeculativeStartShort(len) == len - 65535 - 22

\* start = length - 0xFFFF - 23
SpeculativeStart(len) == len - 65535 - 23

\* The (cut, dataStartOffset) pairs of the calls: the whole file with and
\* without a hint, the file cut at k with the hint k (for a file of 100000
\* bytes or more also at the start of the speculative window), and hints
\* that do not match the cut.
CallArguments(z) ==
    LET S == z.prefix
        n == FileLength(z)
        window == IF n >= 100000 THEN {SpeculativeStart(n)} ELSE {}
        cuts == {k \in {1, S - 1, S, S + 1, S + 46, n - 22, n} \cup window :
                    k >= 0 /\ k <= n}
    IN  {<<0, Undefined>>, <<0, 0>>, <<0, 7>>, <<0, MaxHint>>}
        \cup {<<k, k>> : k \in cuts}
        \cup {<<k, 0>> : k \in {S} \cap cuts}

-----------------------------------------------------------------------------
(* ParserSpec: one call of getEntries *)

NoData == [length |-> 0, bytes |-> NoBytes]

NoFile == Blank(0, NoPatches)

NoHeaders == [contentLength |-> <<>>, acceptRanges |-> <<>>]

\* No second top-level call.
NoSession == <<>>

HttpIdle ==
    /\ served = NoFile
    /\ requests = <<>>
    /\ x = 0
    /\ length = 0
    /\ start = 0
    /\ abortCalls = <<>>
    /\ gotEntries = <<>>
    /\ uncaught = <<>>
    /\ headerEvents = 0
    /\ lastHeaders = NoHeaders
    /\ calls = <<>>
    /\ transport = "none"
    /\ lateEvents = 0
    /\ other = NoSession

ParserInit ==
    /\ zip \in ParserFiles
    /\ TextDecoderAvailable \in BOOLEAN
    /\ data = NoData
    /\ dataStartOffset = Undefined
    /\ callee = "none"
    /\ returned = NotCalled
    /\ returnedAgain = NotCalled
    /\ decodeCalls = <<>>
    /\ HttpIdle

\* A getEntries that clears the buffer it is given.
DataAfterCallCleared(d) == [length |-> d.length, bytes |-> NoBytes]

\* The buffer after a call: getEntries reads it (data[i], view.getUint16,
\* view.getUint32, data.subarray) and writes nothing to it.
DataAfterCall(d) == d

\* ZipInfo.getEntries(data, dataStartOffset), the base definition.
CallGetEntries ==
    /\ callee = "none"
    /\ \E a \in CallArguments(zip) :
          /\ data' = DataAfterCall(SliceFrom(FileBytes(zip), a[1]))
          /\ dataStartOffset' = a[2]
          /\ returned' = getEntries(SliceFrom(FileBytes(zip), a[1]), a[2])
          /\ decodeCalls' = DecodeCalls(SliceFrom(FileBytes(zip), a[1]), a[2])
    /\ callee' = "base"
    /\ UNCHANGED <<zip, TextDecoderAvailable, returnedAgain>>
    /\ UNCHANGED httpVars

\* ZipInfo.getEntries(data, dataStartOffset, includeOffset), the later
\* definition.
CallGetEntriesZip64 ==
    /\ callee = "none"
    /\ \E a \in CallArguments(zip), includeOffset \in BOOLEAN :
          /\ data' = SliceFrom(FileBytes(zip), a[1])
          /\ dataStartOffset' = a[2]
          /\ returned' = getEntriesZip64(data', a[2], includeOffset)
          /\ decodeCalls' = DecodeCallsZip64(data', a[2])
          /\ callee' = IF includeOffset THEN "zip64 includeOffset" ELSE "zip64"
    /\ UNCHANGED <<zip, TextDecoderAvailable, returnedAgain>>
    /\ UNCHANGED httpVars

\* A second call of the base definition, with the buffer and the offset of
\* the first.
CallGetEntriesAgain ==
    /\ callee = "base"
    /\ returnedAgain = NotCalled
    /\ returnedAgain' = getEntries(data, dataStartOffset)
    /\ data' = DataAfterCall(data)
    /\ UNCHANGED <<zip, dataStartOffset, callee, returned, decodeCalls,
                   TextDecoderAvailable>>
    /\ UNCHANGED httpVars

ParserNext == CallGetEntries \/ CallGetEntriesZip64 \/ CallGetEntriesAgain

ParserSpec == ParserInit /\ [][ParserNext]_vars


-----------------------------------------------------------------------------
(* Well-formed files, and what their central directory lists *)

HasSignature(seq) ==
    \E k \in 1..(Len(seq) - 3) : SubSeq(seq, k, k + 3) = SignatureComment

IsZip64Record(r) ==
    \/ r.uncompressedSize = Max32
    \/ r.compressedSize = Max32
    \/ r.localOffset = Max32

\* No EOCD signature starts behind the first byte of the EOCD record.
Unambiguous(z) ==
    \A i \in DOMAIN FileBytes(z).bytes :
        i > EOCDStart(z) => ~IsEOCDSignature(FileBytes(z), i)

\* A prefix of at least one byte, the records, at once the EOCD record with
\* the true count and offset, a comment free of the EOCD signature (none
\* starts behind the first byte of the EOCD record); no ZIP64.
WellFormed(z) ==
    /\ z.form = "archive"
    /\ z.prefix >= 1
    /\ z.gap = 0
    /\ z.patches = NoPatches
    /\ z.count = Len(z.records)
    /\ z.count /= 65535
    /\ z.cdOffset = Num(z.prefix)
    /\ ~HasSignature(z.comment)
    /\ Unambiguous(z)
    /\ \A k \in 1..Len(z.records) : ~IsZip64Record(z.records[k])

\* The entry a record stands for.
ListedEntry(r) ==
    LET filename == _decodeFilename(r.name, utfLabelOf(r.flags))
    IN  [directory |-> endsWithSlash(filename), filename |-> filename,
         uncompressedSize |-> r.uncompressedSize]

Listing(z) ==
    <<RootEntry(Num(z.prefix))>>
    \o [k \in 1..Len(z.records) |-> ListedEntry(z.records[k])]

WholeFileCall ==
    /\ callee /= "none"
    /\ data = FileBytes(zip)
    /\ dataStartOffset \in {Undefined, 0}

-----------------------------------------------------------------------------
(* Claims about getEntries *)

\* C1: for every buffer and every non-negative dataStartOffset the base
\* getEntries returns normally (no exception, no DataView read outside the
\* buffer) a list of at least one element whose first element is the root
\* entry '/' with size 0 and centralDirectoryStart = the 4-byte little-endian
\* value at EOCD+16 of the EOCD record found, or 0 when none is found.
C1_BaseGetEntriesTotal ==
    callee = "base" =>
        /\ returned.kind = "list"
        /\ Len(returned.entries) >= 1
        /\ returned.entries[1] =
              [directory |-> TRUE, filename |-> <<47>>,
               uncompressedSize |-> Num(0),
               centralDirectoryStart |->
                   IF FindEOCD(data) >= 0
                   THEN getUint32(data, FindEOCD(data) + 16) ELSE Num(0)]

\* C1 witness: a call with a hint beyond the offset the EOCD names, which
\* recovered entries by scanning.
C1_Witness ==
    /\ callee = "base"
    /\ FindEOCD(data) >= 0
    /\ dataStartOffset > ToInt(getUint32(data, FindEOCD(data) + 16))
    /\ Len(returned.entries) > 1

\* C4: getEntries of a whole well-formed file returns the root with
\* centralDirectoryStart = S followed by one entry per central directory
\* record, in order, with that record's name, directory flag and size.
C4_RoundTrip ==
    (callee = "base" /\ WholeFileCall /\ WellFormed(zip)) =>
        returned = Returned(Listing(zip))

\* C5: for a well-formed file whose central directory starts at S and every
\* K in 0..S, getEntries(F[K..], K) returns the list getEntries(F) returns,
\* whose root reports centralDirectoryStart = S.
C5_OffsetHintEquivalence ==
    (/\ callee = "base"
     /\ WellFormed(zip)
     /\ dataStartOffset >= 0 /\ dataStartOffset <= zip.prefix
     /\ data = SliceFrom(FileBytes(zip), dataStartOffset)) =>
        /\ returned = getEntries(FileBytes(zip), Undefined)
        /\ returned.kind = "list"
        /\ returned.entries[1].centralDirectoryStart = Num(zip.prefix)

\* C5 witness: the data starts exactly at the central directory (K = S), the
\* translated offset is 0 and the recovery scan located the first record.
C5_Witness ==
    /\ callee = "base"
    /\ WellFormed(zip)
    /\ dataStartOffset = zip.prefix
    /\ data = SliceFrom(FileBytes(zip), dataStartOffset)
    /\ Len(zip.records) = 2
    /\ Len(returned.entries) = 3


-----------------------------------------------------------------------------
(* ZipInfo.runGetEntriesOverHttp.  A header value is a sequence of            *)
(* one-character strings; Null is the null getResponseHeader returns for a   *)
(* header that is not there.                                                 *)

Null == <<"null">>

Bytes == <<"b", "y", "t", "e", "s">>

DigitValue(c) ==
    CASE c = "0" -> 0 [] c = "1" -> 1 [] c = "2" -> 2 [] c = "3" -> 3
      [] c = "4" -> 4 [] c = "5" -> 5 [] c = "6" -> 6 [] c = "7" -> 7
      [] c = "8" -> 8 [] c = "9" -> 9 [] OTHER -> Undefined

RECURSIVE SkipSpaces(_)
SkipSpaces(s) ==
    IF s /= <<>> /\ Head(s) = " " THEN SkipSpaces(Tail(s)) ELSE s

RECURSIVE ParseDigits(_, _)
\* The value of the longest prefix of digits, after the digits read so far
\* gave acc (Undefined: none read); no digit at all: NaN.
ParseDigits(s, acc) ==
    IF s = <<>> \/ DigitValue(Head(s)) = Undefined
    THEN [nan |-> acc = Undefined, value |-> IF acc = Undefined THEN 0 ELSE acc]
    ELSE ParseDigits(Tail(s),
                     (IF acc = Undefined THEN 0 ELSE acc) * 10 + DigitValue(Head(s)))

\* parseInt(header, 10)
parseInt(header) ==
    LET s == SkipSpaces(header)
        negative == s /= <<>> /\ Head(s) = "-"
        signed == s /= <<>> /\ Head(s) \in {"-", "+"}
        p == ParseDigits(IF signed THEN Tail(s) ELSE s, Undefined)
    IN  [nan |-> p.nan, value |-> IF negative THEN 0 - p.value ELSE p.value]

\* parseInt(...) || 0
OrZero(p) == IF p.nan THEN 0 ELSE p.value

\* The rangeHeader of a request that has none (undefined).
NoRange == ""

\* A range header for every start, 0 included.
getRangeAlways(first, len) ==
    "bytes=" \o ToString(first) \o "-" \o ToString(len - 1) \o "/"
    \o ToString(len)

getRange(first, len) ==
    IF first /= 0
    THEN "bytes=" \o ToString(first) \o "-" \o ToString(len - 1) \o "/"
         \o ToString(len)
    ELSE NoRange

\* The test with "at most 100000" for "below 100000".
StaysUpToThreshold(len, acceptRanges) ==
    len <= 100000 \/ acceptRanges /= Bytes

\* length < 1e5 || getResponseHeader('Accept-Ranges') !== 'bytes'
StaysOnInitialRequest(len, acceptRanges) ==
    len < 100000 \/ acceptRanges /= Bytes

\* if (start && response.byteLength === length) { start = 0; }
ResolvedStart(first, response, len) ==
    IF first /= 0 /\ response.length = len THEN 0 ELSE first

\* A test that takes every parse for final.
CoversAlways(entries, first) == TRUE

\* entries[0].centralDirectoryStart >= start
CoversDirectory(entries, first) ==
    ~IsSmall(entries[1].centralDirectoryStart)
    \/ ToInt(entries[1].centralDirectoryStart) >= first

\* A request that is handed onHeadersReceived whatever it is for.
RequestInspectingHeaders(rangeHeader, first, onHeadersReceived, onCompleted) ==
    [rangeHeader |-> rangeHeader, first |-> first,
     onHeadersReceived |-> TRUE, onCompleted |-> onCompleted,
     state |-> "inflight", listening |-> TRUE,
     response |-> [length |-> 0, bytes |-> NoBytes]]

\* What sendHttpRequest is handed, and what the transport knows of it: "first"
\* is the first byte the range header asks for (0: the whole file);
\* "listening" says that the completion event of the request object still
\* reaches params.onCompleted.
Request(rangeHeader, first, onHeadersReceived, onCompleted) ==
    [rangeHeader |-> rangeHeader, first |-> first,
     onHeadersReceived |-> onHeadersReceived, onCompleted |-> onCompleted,
     state |-> "inflight", listening |-> TRUE, response |-> NoData]

InFlight(k) == k \in 1..Len(requests) /\ requests[k].state = "inflight"

\* A handle whose abort() does nothing.
AbortIgnored(reqs, k) == reqs

\* An abort() that gives up request k and leaves its handlers in place.
AbortKeepingHandlers(reqs, k) == [reqs EXCEPT ![k].state = "aborted"]

\* x.abort(): the transport gives up request k.  The browser handle sets
\* "x.onreadystatechange = x.onloadend = null" and the GreaseMonkey handle
\* "onCompleted = function() {}" before they abort the request object.
Aborted(reqs, k) ==
    [reqs EXCEPT ![k].state = "aborted", ![k].listening = FALSE]

\* The completion event of request k (loadend, readyState 4) fires and
\* reaches params.onCompleted.  A transport that does as the JSDoc asks fires
\* it for requests in flight only; a request object of the browser or of
\* GreaseMonkey may also fire it after abort().
CompletionReaches(k) ==
    /\ k \in 1..Len(requests)
    /\ requests[k].listening
    /\ IF transport = "contract" THEN requests[k].state = "inflight"
       ELSE requests[k].state \in {"inflight", "aborted"}

\* The browser's sendHttpRequest calls "params.setRequestHeader('Range',
\* params.rangeHeader)" when params.rangeHeader is not falsy: params has no
\* such method, so the call throws a TypeError before x.send().
SendThrows(rangeHeader) == transport = "browser" /\ rangeHeader /= NoRange

\* sendHttpRequest(params): the request as the transport leaves it.
sendHttpRequest(params) ==
    IF SendThrows(params.rangeHeader)
    THEN [params EXCEPT !.state = "unsent", !.listening = FALSE]
    ELSE params

\* The calls the orchestrator makes, as "calls" records them.
SendCall(k) == [call |-> "sendHttpRequest", request |-> k]

AbortCall(k) == [call |-> "abort", request |-> k]

GotEntriesCall == [call |-> "onGotEntries", request |-> 0]

Completes(k, response) ==
    [requests EXCEPT ![k].state = "completed", ![k].response = response]


-----------------------------------------------------------------------------
(* The served files and what a transport may answer *)

\* onHeadersReceived deliveries per run.
MaxHeaderEvents == 2

\* A record 50 4B 01 02 whose uncompressed size is 0xFFFFFFFF, whose name
\* length is 0xFFFF and whose extra field is 4 bytes long: the bytes of
\* another record's comment.
SentinelRecordBytes ==
    <<80, 75, 1, 2>> \o Zeros(20) \o <<255, 255, 255, 255>> \o <<255, 255>>
    \o <<4, 0>> \o Zeros(14)

rCommented == Record(0, Num(5), <<97>>, <<>>, 0, Zeros(3) \o SentinelRecordBytes, 151)

\* A file of n bytes whose central directory starts at S and is followed at
\* once by the EOCD record; the EOCD comment (zeros) fills the file.
Filled(n, S, recs) ==
    Archive(S, recs, 0, <<>>, n - 22 - S - DirectorySize(recs))

\* Files of 100000 bytes whose central directory starts inside the last
\* 0xFFFF + 23 bytes, exactly at their start (34442), or before it; the file
\* of the tests (directory at 34, EOCD at the end); a small file; a file of
\* 200000 bytes.
ServedFiles ==
    {Filled(100000, S, <<rFile, rDir>>) : S \in {99876, 34442, 34441, 34400}}
    \cup {Filled(100000, 34400, <<rCommented>>),
          Archive(34, <<rUtf8>>, 100000 - 22 - 34 - 48, <<>>, 0),
          Archive(30, <<rFile, rDir>>, 0, <<>>, 0),
          Filled(200000, 150000, <<rFile>>)}

ContentLengthHeaders ==
    {Null, <<>>, <<"a", "b", "c">>, <<"9", "9", "9", "9", "9">>,
     <<"1", "0", "0", "0", "0", "0">>, <<" ", "1", "0", "0", "0", "0", "0">>,
     <<"1", "e", "5">>, <<"-", "1", "0", "0", "0", "0", "0">>,
     <<"2", "0", "0", "0", "0", "0">>}

AcceptRangesHeaders ==
    {Null, Bytes, <<"n", "o", "n", "e">>, <<"B", "y", "t", "e", "s">>}

\* An EOCD record at p whose entry count is 0xFFFF, with no ZIP64 locator
\* before it.
SentinelEOCDAt(p) ==
    (p :> 80) @@ (p + 1 :> 75) @@ (p + 2 :> 5) @@ (p + 3 :> 6)
    @@ (p + 8 :> 255) @@ (p + 9 :> 255)

\* What a server that does as asked answers.
HonestBody(z, request) == SliceFrom(FileBytes(z), request.first)

\* Bodies that do not depend on what was asked: the whole file, nothing,
\* zeros, the file from one byte behind its central directory, a small
\* archive, a file whose EOCD names offset 0, and buffers ending in an EOCD
\* record with a sentinel.
StrayBodies(z) ==
    {FileBytes(z), NoData, FileBytes(Blank(100000, NoPatches)),
     SliceFrom(FileBytes(z), z.prefix + 1),
     FileBytes(Archive(30, <<rFile, rDir>>, 0, <<>>, 0)),
     FileBytes([Archive(30, <<rFile>>, 0, <<>>, 0) EXCEPT !.cdOffset = Num(0)]),
     FileBytes(Blank(22, SentinelEOCDAt(0))),
     FileBytes(Blank(42, SentinelEOCDAt(20))),
     FileBytes(Blank(100000, SentinelEOCDAt(99978)))}

\* With two top-level calls running: the whole file (a server that ignores
\* the range) and nothing.
PairStrayBodies(z) == {FileBytes(z), NoData}

Bodies(z, request) ==
    {HonestBody(z, request)}
    \cup (IF other = NoSession THEN StrayBodies(z) ELSE PairStrayBodies(z))

\* The header values a delivery of onHeadersReceived may carry; with two
\* top-level calls running, those of the two files served then, or none.
PairContentLengths ==
    {Null, <<"1", "0", "0", "0", "0", "0">>, <<"2", "0", "0", "0", "0", "0">>}

OfferedContentLengths ==
    IF other = NoSession THEN ContentLengthHeaders ELSE PairContentLengths

OfferedAcceptRanges ==
    IF other = NoSession THEN AcceptRangesHeaders ELSE {Null, Bytes}

-----------------------------------------------------------------------------
(* The header getters of the GreaseMonkey transports *)

\* Texts are sequences of characters, as the header values are.
UpperCaseLetters ==
    <<"A", "B", "C", "D", "E", "F", "G", "H", "I", "J", "K", "L", "M", "N",
      "O", "P", "Q", "R", "S", "T", "U", "V", "W", "X", "Y", "Z">>

LowerCaseLetters ==
    <<"a", "b", "c", "d", "e", "f", "g", "h", "i", "j", "k", "l", "m", "n",
      "o", "p", "q", "r", "s", "t", "u", "v", "w", "x", "y", "z">>

\* String.prototype.toLowerCase
toLowerCase(s) ==
    [k \in 1..Len(s) |->
        IF \E j \in 1..26 : UpperCaseLetters[j] = s[k]
        THEN LowerCaseLetters[CHOOSE j \in 1..26 : UpperCaseLetters[j] = s[k]]
        ELSE s[k]]

\* s.indexOf(t, from): the least index (from 0) at or behind "from" at which
\* t occurs in s, or -1.
indexOf(s, t, from) ==
    LET found == {i \in from..(Len(s) - Len(t)) :
                     SubSeq(s, i + 1, i + Len(t)) = t}
    IN  IF found = {} THEN 0 - 1 ELSE SetMin(found)

\* s.slice(a, b) for 0 <= a
slice(s, a, b) == SubSeq(s, a + 1, IF b > Len(s) THEN Len(s) ELSE b)

CRLF == <<"\r", "\n">>

ColonSpace == <<":", " ">>

\* s.split('\r\n')[0]
BeforeCRLF(s) ==
    IF indexOf(s, CRLF, 0) = 0 - 1 THEN s ELSE slice(s, 0, indexOf(s, CRLF, 0))

\* What a function returns that ends without a return statement.
UndefinedHeader == <<"undefined">>

\* zipinfo_greasemonkey.js: the text is searched, with '\r\n' put before it,
\* for '\r\n' + name + ': ', and what follows up to the next '\r\n' returned.
getResponseHeaderGreaseMonkey(responseHeaders, headerName) ==
    LET headers == CRLF \o responseHeaders
        name == CRLF \o toLowerCase(headerName) \o ColonSpace
        i == indexOf(toLowerCase(headers), name, 0)
    IN  IF i >= 0 THEN BeforeCRLF(slice(headers, i + Len(name), Len(headers)))
        ELSE UndefinedHeader

\* The older source: the text is searched for name + ': ' and sliced from
\* the start of the match to the next '\r\n' (or the end of the text).
SliceOfOlderGetter(responseHeaders, headerName) ==
    LET name == toLowerCase(headerName) \o ColonSpace
        i == indexOf(toLowerCase(responseHeaders), name, 0)
        at == indexOf(responseHeaders, CRLF, i + Len(name))
        end == IF at = 0 - 1 THEN Len(responseHeaders) ELSE at
    IN  slice(responseHeaders, i, end)

MatchOfOlderGetter(responseHeaders, headerName) ==
    indexOf(toLowerCase(responseHeaders),
            toLowerCase(headerName) \o ColonSpace, 0)

\* The older source with "function" (no match: undefined).
getResponseHeaderOlder(responseHeaders, headerName) ==
    IF MatchOfOlderGetter(responseHeaders, headerName) >= 0
    THEN SliceOfOlderGetter(responseHeaders, headerName)
    ELSE UndefinedHeader

\* The older source with arrow functions (no match: '').
getResponseHeaderOlderES6(responseHeaders, headerName) ==
    IF MatchOfOlderGetter(responseHeaders, headerName) >= 0
    THEN SliceOfOlderGetter(responseHeaders, headerName)
    ELSE <<>>

GreaseMonkeyTransports ==
    {"greasemonkey", "greasemonkey older", "greasemonkey older ES6"}

\* The function the transport hands to onHeadersReceived.
getResponseHeader(responseHeaders, headerName) ==
    CASE transport = "greasemonkey" ->
            getResponseHeaderGreaseMonkey(responseHeaders, headerName)
      [] transport = "greasemonkey older" ->
            getResponseHeaderOlder(responseHeaders, headerName)
      [] transport = "greasemonkey older ES6" ->
            getResponseHeaderOlderES6(responseHeaders, headerName)

ContentLengthName ==
    <<"C", "o", "n", "t", "e", "n", "t", "-", "L", "e", "n", "g", "t", "h">>

AcceptRangesName ==
    <<"A", "c", "c", "e", "p", "t", "-", "R", "a", "n", "g", "e", "s">>

HeaderLine(name, value) == name \o ColonSpace \o value \o CRLF

\* response.responseHeaders: header lines, each ended by '\r\n'; names in the
\* case of the server or in lower case; in either order; with a header whose
\* name ends with the name asked for; without one or both headers.
ResponseHeaderTexts ==
    LET big == <<"1", "0", "0", "0", "0", "0">>
        twice == <<"2", "0", "0", "0", "0", "0">>
        small == <<"9", "9", "9", "9", "9">>
        none == <<"n", "o", "n", "e">>
    IN  {HeaderLine(ContentLengthName, big) \o HeaderLine(AcceptRangesName, Bytes),
         HeaderLine(toLowerCase(AcceptRangesName), Bytes)
            \o HeaderLine(toLowerCase(ContentLengthName), twice),
         HeaderLine(ContentLengthName, small) \o HeaderLine(AcceptRangesName, Bytes),
         HeaderLine(ContentLengthName, big) \o HeaderLine(AcceptRangesName, none),
         HeaderLine(ContentLengthName, big),
         HeaderLine(AcceptRangesName, Bytes),
         HeaderLine(<<"X", "-">> \o ContentLengthName, <<"5">>)
            \o HeaderLine(ContentLengthName, big)
            \o HeaderLine(AcceptRangesName, Bytes),
         <<>>}

-----------------------------------------------------------------------------
(* Spec: one call of runGetEntriesOverHttp and the callbacks of its requests *)

Init ==
    /\ served \in ServedFiles
    /\ TextDecoderAvailable \in BOOLEAN
    /\ zip = NoFile
    /\ data = NoData
    /\ dataStartOffset = Undefined
    /\ callee = "none"
    /\ returned = NotCalled
    /\ returnedAgain = NotCalled
    /\ decodeCalls = <<>>
    /\ requests = <<>>
    /\ x = 0
    /\ length = 0
    /\ start = 0
    /\ abortCalls = <<>>
    /\ gotEntries = <<>>
    /\ uncaught = <<>>
    /\ headerEvents = 0
    /\ lastHeaders = NoHeaders
    /\ calls = <<>>
    /\ transport = "contract"
    /\ lateEvents = 0
    /\ other = NoSession

\* ZipInfo.runGetEntriesOverHttp(sendHttpRequest, onGotEntries): the initial
\* request.
runGetEntriesOverHttp ==
    /\ requests = <<>>
    /\ transport \notin {"xhr", "synchronous"}
    /\ requests' = <<sendHttpRequest(Request(NoRange, 0, TRUE, "initial"))>>
    /\ x' = 1
    /\ calls' = <<SendCall(1)>>
    /\ UNCHANGED <<served, length, start, abortCalls, gotEntries, uncaught,
                   headerEvents, lastHeaders>>
    /\ UNCHANGED <<parserVars, TextDecoderAvailable, transport, lateEvents,
                   other>>

\* The body of onHeadersReceived, called with a function that returns the
\* headers "headers" holds.
HeadersReceived(headers) ==
    /\ headerEvents' = headerEvents + 1
    /\ lastHeaders' = headers
    /\ length' = OrZero(parseInt(headers.contentLength))
    /\ IF StaysOnInitialRequest(length', headers.acceptRanges)
       THEN UNCHANGED <<requests, start, abortCalls, calls, uncaught>>
       ELSE /\ abortCalls' = Append(abortCalls, x)
            /\ start' = SpeculativeStart(length')
            /\ requests' =
                  Append(Aborted(requests, x),
                         sendHttpRequest(
                             Request(getRange(start', length'), start',
                                     FALSE, "range")))
            /\ calls' = calls \o <<AbortCall(x),
                                    SendCall(Len(requests) + 1)>>
            /\ uncaught' =
                  IF SendThrows(getRange(start', length'))
                  THEN Append(uncaught, "TypeError") ELSE uncaught

\* onHeadersReceived(getResponseHeader) of the initial request.
onHeadersReceived ==
    /\ headerEvents < MaxHeaderEvents
    /\ transport /= "synchronous"
    /\ \E k \in 1..Len(requests), contentLength \in OfferedContentLengths,
          acceptRanges \in OfferedAcceptRanges :
          /\ InFlight(k) /\ requests[k].onHeadersReceived
          /\ HeadersReceived([contentLength |-> contentLength,
                              acceptRanges |-> acceptRanges])
    /\ UNCHANGED <<served, x, gotEntries>>
    /\ UNCHANGED <<parserVars, TextDecoderAvailable, transport, lateEvents,
                   other>>

\* What "onGotEntries(getEntries(response, first))" leaves.
Delivers(k, response, first) ==
    LET entries == getEntriesZip64(response, first, FALSE)
    IN  /\ requests' = Completes(k, response)
        /\ IF entries.kind = "throw"
           THEN /\ uncaught' = Append(uncaught, entries.error)
                /\ UNCHANGED <<gotEntries, calls>>
           ELSE /\ gotEntries' = Append(gotEntries, entries)
                /\ calls' = Append(calls, GotEntriesCall)
                /\ UNCHANGED uncaught

\* onCompleted(response) of the initial request.
onCompletedInitial ==
    /\ \E k \in 1..Len(requests) :
          /\ CompletionReaches(k) /\ requests[k].onCompleted = "initial"
          /\ \E response \in Bodies(served, requests[k]) :
                Delivers(k, response, Undefined)
    /\ UNCHANGED <<served, x, length, start, abortCalls, headerEvents,
                   lastHeaders>>
    /\ UNCHANGED <<parserVars, TextDecoderAvailable, transport, lateEvents,
                   other>>

\* onCompleted(response) of the speculative ranged request.
onCompletedRange ==
    /\ \E k \in 1..Len(requests) :
          /\ CompletionReaches(k) /\ requests[k].onCompleted = "range"
          /\ \E response \in Bodies(served, requests[k]) :
                LET first == ResolvedStart(start, response, length)
                    entries == getEntriesZip64(response, first, FALSE)
                IN  IF entries.kind = "throw"
                    THEN /\ uncaught' = Append(uncaught, entries.error)
                         /\ requests' = Completes(k, response)
                         /\ start' = first
                         /\ UNCHANGED <<gotEntries, calls>>
                    ELSE IF entries.kind = "undefined"
                    THEN /\ uncaught' = Append(uncaught, "TypeError")
                         /\ requests' = Completes(k, response)
                         /\ start' = first
                         /\ UNCHANGED <<gotEntries, calls>>
                    ELSE IF CoversDirectory(entries.entries, first)
                    THEN /\ gotEntries' = Append(gotEntries, entries)
                         /\ calls' = Append(calls, GotEntriesCall)
                         /\ requests' = Completes(k, response)
                         /\ start' = first
                         /\ UNCHANGED uncaught
                    ELSE /\ start' = ToInt(entries.entries[1].centralDirectoryStart)
                         /\ requests' =
                               Append(Completes(k, response),
                                      sendHttpRequest(
                                          Request(getRange(start', length),
                                                  start', FALSE, "final")))
                         /\ calls' = Append(calls, SendCall(Len(requests) + 1))
                         /\ uncaught' =
                               IF SendThrows(getRange(start', length))
                               THEN Append(uncaught, "TypeError")
                               ELSE uncaught
                         /\ UNCHANGED gotEntries
    /\ UNCHANGED <<served, x, length, abortCalls, headerEvents, lastHeaders>>
    /\ UNCHANGED <<parserVars, TextDecoderAvailable, transport, lateEvents,
                   other>>

\* onCompleted(response) of the corrective request.
onCompletedFinal ==
    /\ \E k \in 1..Len(requests) :
          /\ CompletionReaches(k) /\ requests[k].onCompleted = "final"
          /\ \E response \in Bodies(served, requests[k]) :
                Delivers(k, response, start)
    /\ UNCHANGED <<served, x, length, start, abortCalls, headerEvents,
                   lastHeaders>>
    /\ UNCHANGED <<parserVars, TextDecoderAvailable, transport, lateEvents,
                   other>>

Next ==
    \/ runGetEntriesOverHttp
    \/ onHeadersReceived
    \/ onCompletedInitial
    \/ onCompletedRange
    \/ onCompletedFinal

Spec == Init /\ [][Next]_vars


-----------------------------------------------------------------------------
(* The XHR-based ZipInfo.getRemoteEntries of zipinfo.js *)

\* if (start) { x.setRequestHeader('Range',
\*   'bytes=' + start + '-' + (length - 1) + '/' + length); }
requestRangeHeader(first, len) ==
    IF first /= 0
    THEN "bytes=" \o ToString(first) \o "-" \o ToString(len - 1) \o "/"
         \o ToString(len)
    ELSE NoRange

\* requestRange(callback): the XMLHttpRequest it opens and sends.
requestRange(first, len, callback) ==
    Request(requestRangeHeader(first, len), first, FALSE, callback)

\* length > 1e5 && this.getResponseHeader('Accept-Ranges') === 'bytes'
SwitchesToRange(len, acceptRanges) ==
    len > 100000 /\ acceptRanges = Bytes

\* if (start && res && res.byteLength === length) { start = 0; }
StartAtLoadend(first, res, len) ==
    IF first /= 0 /\ res.length = len THEN 0 ELSE first

\* ZipInfo.getRemoteEntries(url, onGotEntries): "var x =
\* requestRange(onGotEntries)" with start = 0.
getRemoteEntries ==
    /\ requests = <<>>
    /\ transport = "xhr"
    /\ requests' = <<requestRange(start, length, "xhrInitial")>>
    /\ x' = 1
    /\ UNCHANGED <<served, length, start, abortCalls, gotEntries, uncaught,
                   headerEvents, lastHeaders, calls>>
    /\ UNCHANGED <<parserVars, TextDecoderAvailable, transport, lateEvents,
                   other>>

\* x.onreadystatechange of the first request, with readyState 2.
onreadystatechange ==
    /\ transport = "xhr"
    /\ headerEvents < MaxHeaderEvents
    /\ \E k \in 1..Len(requests), contentLength \in ContentLengthHeaders,
          acceptRanges \in AcceptRangesHeaders :
          /\ InFlight(k)
          /\ requests[k].listening
          /\ requests[k].onCompleted = "xhrInitial"
          /\ headerEvents' = headerEvents + 1
          /\ lastHeaders' = [contentLength |-> contentLength,
                             acceptRanges |-> acceptRanges]
          /\ length' = OrZero(parseInt(contentLength))
          /\ IF SwitchesToRange(length', acceptRanges)
             THEN /\ abortCalls' = Append(abortCalls, k)
                  /\ start' = length' - 65535 - 23
                  /\ requests' =
                        Append(Aborted(requests, k),
                               requestRange(start', length', "xhrRange"))
             ELSE UNCHANGED <<requests, start, abortCalls>>
    /\ UNCHANGED <<served, x, gotEntries, uncaught, calls>>
    /\ UNCHANGED <<parserVars, TextDecoderAvailable, transport, lateEvents,
                   other>>

\* x.onloadend of a request: "callback(ZipInfo.getEntries(new Uint8Array(res
\* || 0), start))", where callback is onGotEntries for the first and the
\* last request and the function of lines 139-146 for the ranged one.
onloadend ==
    /\ transport = "xhr"
    /\ \E k \in 1..Len(requests) :
          /\ CompletionReaches(k)
          /\ requests[k].onCompleted \in {"xhrInitial", "xhrRange", "xhrFinal"}
          /\ \E res \in Bodies(served, requests[k]) :
                LET first == StartAtLoadend(start, res, length)
                    entries == getEntries(res, first)
                IN  IF entries.kind /= "list"
                    THEN /\ uncaught' = Append(uncaught, entries.error)
                         /\ requests' = Completes(k, res)
                         /\ start' = first
                         /\ UNCHANGED gotEntries
                    ELSE IF requests[k].onCompleted /= "xhrRange"
                            \/ CoversDirectory(entries.entries, first)
                    THEN /\ gotEntries' = Append(gotEntries, entries)
                         /\ requests' = Completes(k, res)
                         /\ start' = first
                         /\ UNCHANGED uncaught
                    ELSE /\ start' = ToInt(entries.entries[1].centralDirectoryStart)
                         /\ requests' =
                               Append(Completes(k, res),
                                      requestRange(start', length, "xhrFinal"))
                         /\ UNCHANGED <<gotEntries, uncaught>>
    /\ UNCHANGED <<served, x, length, abortCalls, headerEvents, lastHeaders,
                   calls>>
    /\ UNCHANGED <<parserVars, TextDecoderAvailable, transport, lateEvents,
                   other>>

-----------------------------------------------------------------------------
(* RemoteSpec: getRemoteEntries of zipinfo_browser.js, of                   *)
(* zipinfo_greasemonkey.js and of zipinfo.js, and runGetEntriesOverHttp     *)
(* over a sendHttpRequest that does as its JSDoc asks                        *)

\* Events a request object fires after abort(), per run.
MaxLateEvents == 2

Transports == {"contract", "browser", "greasemonkey", "xhr"}

\* The request object of an aborted request fires readystatechange with
\* readyState 4, or loadend: the browser handle has set its handlers to
\* null, the GreaseMonkey handler calls the empty function abort() has put
\* in "onCompleted".
lateEvent ==
    /\ transport \in {"browser"} \cup GreaseMonkeyTransports
    /\ lateEvents < MaxLateEvents
    /\ \E k \in 1..Len(requests) :
          /\ requests[k].state = "aborted"
          /\ ~requests[k].listening
    /\ lateEvents' = lateEvents + 1
    /\ UNCHANGED <<served, requests, x, length, start, abortCalls, gotEntries,
                   uncaught, headerEvents, lastHeaders, calls>>
    /\ UNCHANGED <<parserVars, TextDecoderAvailable, transport, other>>

RemoteInit ==
    /\ served \in ServedFiles
    /\ TextDecoderAvailable = TRUE
    /\ transport \in Transports
    /\ zip = NoFile
    /\ data = NoData
    /\ dataStartOffset = Undefined
    /\ callee = "none"
    /\ returned = NotCalled
    /\ returnedAgain = NotCalled
    /\ decodeCalls = <<>>
    /\ requests = <<>>
    /\ x = 0
    /\ length = 0
    /\ start = 0
    /\ abortCalls = <<>>
    /\ gotEntries = <<>>
    /\ uncaught = <<>>
    /\ headerEvents = 0
    /\ lastHeaders = NoHeaders
    /\ calls = <<>>
    /\ lateEvents = 0
    /\ other = NoSession

RemoteNext ==
    \/ runGetEntriesOverHttp
    \/ onHeadersReceived
    \/ onCompletedInitial
    \/ onCompletedRange
    \/ onCompletedFinal
    \/ lateEvent
    \/ getRemoteEntries
    \/ onreadystatechange
    \/ onloadend

RemoteSpec == RemoteInit /\ [][RemoteNext]_vars

-----------------------------------------------------------------------------
(* GreaseMonkeySpec: getRemoteEntries of zipinfo_greasemonkey.js and of its *)
(* two older sources, with the header text GM_xmlhttpRequest reports        *)

\* onreadystatechange(response) with response.readyState === 2: the
\* orchestrator's onHeadersReceived is called with the transport's getter.
GM_onreadystatechange ==
    /\ headerEvents < MaxHeaderEvents
    /\ transport \in GreaseMonkeyTransports
    /\ \E k \in 1..Len(requests), responseHeaders \in ResponseHeaderTexts :
          /\ InFlight(k) /\ requests[k].onHeadersReceived
          /\ HeadersReceived(
                [contentLength |->
                     getResponseHeader(responseHeaders, ContentLengthName),
                 acceptRanges |->
                     getResponseHeader(responseHeaders, AcceptRangesName),
                 responseHeaders |-> responseHeaders])
    /\ UNCHANGED <<served, x, gotEntries>>
    /\ UNCHANGED <<parserVars, TextDecoderAvailable, transport, lateEvents,
                   other>>

GreaseMonkeyInit ==
    /\ served \in ServedFiles
    /\ TextDecoderAvailable = TRUE
    /\ transport \in GreaseMonkeyTransports
    /\ zip = NoFile
    /\ data = NoData
    /\ dataStartOffset = Undefined
    /\ callee = "none"
    /\ returned = NotCalled
    /\ returnedAgain = NotCalled
    /\ decodeCalls = <<>>
    /\ requests = <<>>
    /\ x = 0
    /\ length = 0
    /\ start = 0
    /\ abortCalls = <<>>
    /\ gotEntries = <<>>
    /\ uncaught = <<>>
    /\ headerEvents = 0
    /\ lastHeaders = NoHeaders
    /\ calls = <<>>
    /\ lateEvents = 0
    /\ other = NoSession

GreaseMonkeyNext ==
    \/ runGetEntriesOverHttp
    \/ GM_onreadystatechange
    \/ onCompletedInitial
    \/ onCompletedRange
    \/ onCompletedFinal
    \/ lateEvent

GreaseMonkeySpec == GreaseMonkeyInit /\ [][GreaseMonkeyNext]_vars

-----------------------------------------------------------------------------
(* SynchronousSpec: runGetEntriesOverHttp over a transport that does as the  *)
(* JSDoc asks and one that calls onHeadersReceived from inside sendRequest   *)

\* ZipInfo.runGetEntriesOverHttp over a transport that has the headers at
\* hand: sendHttpRequest calls params.onHeadersReceived before it returns,
\* so "x" is still undefined when the callback runs, and "x.abort()" throws
\* a TypeError.  The transport lets the error through ("x" is never
\* assigned) or swallows it and returns the handle.
runGetEntriesOverHttpSynchronous ==
    /\ requests = <<>>
    /\ transport = "synchronous"
    /\ \E contentLength \in OfferedContentLengths,
          acceptRanges \in OfferedAcceptRanges :
          /\ headerEvents' = headerEvents + 1
          /\ lastHeaders' = [contentLength |-> contentLength,
                             acceptRanges |-> acceptRanges]
          /\ length' = OrZero(parseInt(contentLength))
          /\ requests' = <<sendHttpRequest(Request(NoRange, 0, TRUE, "initial"))>>
          /\ calls' = <<SendCall(1)>>
          /\ IF StaysOnInitialRequest(length', acceptRanges)
             THEN /\ x' = 1
                  /\ UNCHANGED uncaught
             ELSE /\ x' \in {0, 1}
                  /\ uncaught' = Append(uncaught, "TypeError")
    /\ UNCHANGED <<served, start, abortCalls, gotEntries>>
    /\ UNCHANGED <<parserVars, TextDecoderAvailable, transport, lateEvents,
                   other>>

SynchronousInit ==
    /\ served \in ServedFiles
    /\ TextDecoderAvailable = TRUE
    /\ transport \in {"contract", "synchronous"}
    /\ zip = NoFile
    /\ data = NoData
    /\ dataStartOffset = Undefined
    /\ callee = "none"
    /\ returned = NotCalled
    /\ returnedAgain = NotCalled
    /\ decodeCalls = <<>>
    /\ requests = <<>>
    /\ x = 0
    /\ length = 0
    /\ start = 0
    /\ abortCalls = <<>>
    /\ gotEntries = <<>>
    /\ uncaught = <<>>
    /\ headerEvents = 0
    /\ lastHeaders = NoHeaders
    /\ calls = <<>>
    /\ lateEvents = 0
    /\ other = NoSession

SynchronousNext ==
    \/ runGetEntriesOverHttp
    \/ runGetEntriesOverHttpSynchronous
    \/ onHeadersReceived
    \/ onCompletedInitial
    \/ onCompletedRange
    \/ onCompletedFinal

SynchronousSpec == SynchronousInit /\ [][SynchronousNext]_vars

-----------------------------------------------------------------------------
(* PairSpec: two top-level calls of runGetEntriesOverHttp whose callbacks   *)
(* interleave.  The variables of the orchestration hold the call whose      *)
(* callback runs; "other" holds the requests and the closure variables of   *)
(* the call that waits.                                                      *)

\* "var start" as if all calls had one such variable.
startShared(session) == start

\* "var start = length - 0xFFFF - 23": a variable of the onHeadersReceived
\* call that declares it, so each top-level call has its own.
startOf(session) == session.start

\* "var length = parseInt(...)", as start.
lengthOf(session) == session.length

\* "var x = sendHttpRequest(...)": a variable of the runGetEntriesOverHttp
\* call.
xOf(session) == session.x

\* A call that has not begun, for the file z.
NewSession(z) ==
    [served |-> z, requests |-> <<>>, x |-> 0, length |-> 0, start |-> 0,
     abortCalls |-> <<>>, gotEntries |-> <<>>, uncaught |-> <<>>,
     headerEvents |-> 0, lastHeaders |-> NoHeaders, calls |-> <<>>]

\* The call whose callback runs, as it waits for its next callback.
Waiting ==
    [served |-> served, requests |-> requests, x |-> x, length |-> length,
     start |-> start, abortCalls |-> abortCalls, gotEntries |-> gotEntries,
     uncaught |-> uncaught, headerEvents |-> headerEvents,
     lastHeaders |-> lastHeaders, calls |-> calls]

\* A file whose directory starts before the speculative window, and a file
\* of another length whose directory the window holds.
PairFiles ==
    {Filled(100000, 34400, <<rFile, rDir>>), Filled(200000, 150000, <<rFile>>)}

PairInit ==
    /\ served \in PairFiles
    /\ other \in {NewSession(z) : z \in PairFiles}
    /\ TextDecoderAvailable = TRUE
    /\ transport = "contract"
    /\ zip = NoFile
    /\ data = NoData
    /\ dataStartOffset = Undefined
    /\ callee = "none"
    /\ returned = NotCalled
    /\ returnedAgain = NotCalled
    /\ decodeCalls = <<>>
    /\ requests = <<>>
    /\ x = 0
    /\ length = 0
    /\ start = 0
    /\ abortCalls = <<>>
    /\ gotEntries = <<>>
    /\ uncaught = <<>>
    /\ headerEvents = 0
    /\ lastHeaders = NoHeaders
    /\ calls = <<>>
    /\ lateEvents = 0

\* The callback that runs next belongs to the other call.
interleave ==
    /\ other /= NoSession
    /\ other' = Waiting
    /\ served' = other.served
    /\ requests' = other.requests
    /\ x' = xOf(other)
    /\ length' = lengthOf(other)
    /\ start' = startOf(other)
    /\ abortCalls' = other.abortCalls
    /\ gotEntries' = other.gotEntries
    /\ uncaught' = other.uncaught
    /\ headerEvents' = other.headerEvents
    /\ lastHeaders' = other.lastHeaders
    /\ calls' = other.calls
    /\ UNCHANGED <<parserVars, TextDecoderAvailable, transport, lateEvents>>

PairNext ==
    \/ runGetEntriesOverHttp
    \/ onHeadersReceived
    \/ onCompletedInitial
    \/ onCompletedRange
    \/ onCompletedFinal
    \/ interleave

PairSpec == PairInit /\ [][PairNext]_vars

-----------------------------------------------------------------------------
(* Claims about runGetEntriesOverHttp *)

Started == requests /= <<>>

\* The call was made and no request is in flight.
Quiescent == Started /\ \A k \in 1..Len(requests) : ~InFlight(k)

Completed(k) == k \in 1..Len(requests) /\ requests[k].state = "completed"

\* The Content-Length the latest headers give.
HeaderLength == OrZero(parseInt(lastHeaders.contentLength))

HeadersStay ==
    \/ headerEvents = 0
    \/ HeaderLength < 100000
    \/ lastHeaders.acceptRanges /= Bytes

\* 'bytes=' + first + '-' + (L - 1) + '/' + L
RangeText(first, L) ==
    "bytes=" \o ToString(first) \o "-" \o ToString(L - 1) \o "/" \o ToString(L)

\* The server sent its headers at most once, truthfully, and answered every
\* completed request with the bytes asked for.
HonestRun ==
    /\ headerEvents <= 1
    /\ headerEvents = 1 =>
          /\ HeaderLength = FileLength(served)
          /\ lastHeaders.acceptRanges = Bytes
    /\ \A k \in 1..Len(requests) :
          Completed(k) => requests[k].response = HonestBody(served, requests[k])

\* C2: onGotEntries is never invoked twice, and once every request that was
\* not aborted has completed it has been invoked exactly once.
C2_ExactlyOnce ==
    /\ Len(gotEntries) <= 1
    /\ Quiescent => Len(gotEntries) = 1

\* C3: for a well-formed file F of at least 100000 bytes on an honest server,
\* once the requests are over the list delivered to onGotEntries is
\* getEntries(F).
C3_EndToEnd ==
    (/\ WellFormed(served) /\ FileLength(served) >= 100000
     /\ HonestRun /\ Quiescent) =>
        gotEntries = <<getEntriesZip64(FileBytes(served), Undefined, FALSE)>>

\* C6: if the headers (when delivered at all) give a Content-Length that is
\* missing, unparsable or below 100000, or an Accept-Ranges other than
\* 'bytes', exactly one request is sent, without range header, abort is not
\* called, and when the request has completed onGotEntries has received
\* getEntries(response) parsed from offset 0.
C6_StayOnInitialRequest ==
    (Started /\ HeadersStay) =>
        /\ Len(requests) = 1
        /\ requests[1].rangeHeader = NoRange
        /\ abortCalls = <<>>
        /\ Completed(1) =>
              gotEntries = <<getEntriesZip64(requests[1].response, 0, FALSE)>>

\* The list that parsing the speculative response with the hint
\* L - 0xFFFF - 23 gives.
SpeculativeParse ==
    getEntriesZip64(requests[2].response, HeaderLength - 65535 - 23, FALSE)

SwitchedAsClaimed ==
    (headerEvents > 0 /\ ~HeadersStay) =>
        /\ Len(requests) >= 2
        /\ requests[1].state = "aborted"
        /\ abortCalls = <<1>>
        /\ requests[2].rangeHeader =
              RangeText(HeaderLength - 65535 - 23, HeaderLength)
        /\ HeaderLength = 100000 =>
              requests[2].rangeHeader = "bytes=34442-99999/100000"

\* C7 as stated: headers with L >= 100000 and Accept-Ranges 'bytes' abort the
\* initial request and send a second one with rangeHeader
\* 'bytes=(L-0xFFFF-23)-(L-1)/L'; if the parse of its response with hint
\* L - 0xFFFF - 23 reports centralDirectoryStart >= L - 0xFFFF - 23, that
\* list is delivered and the call ends with 2 requests and 1 abort.
C7_AsStated ==
    /\ SwitchedAsClaimed
    /\ (/\ Completed(2)
        /\ SpeculativeParse.kind = "list"
        /\ CoversDirectory(SpeculativeParse.entries, HeaderLength - 65535 - 23)) =>
           /\ gotEntries = <<SpeculativeParse>>
           /\ Len(requests) = 2
           /\ Len(abortCalls) = 1

\* C7: the same, for a response whose length differs from L.
C7_SuccessfulRangeFetch ==
    /\ SwitchedAsClaimed
    /\ (/\ Completed(2)
        /\ requests[2].response.length /= HeaderLength
        /\ SpeculativeParse.kind = "list"
        /\ CoversDirectory(SpeculativeParse.entries, HeaderLength - 65535 - 23)) =>
           /\ gotEntries = <<SpeculativeParse>>
           /\ Len(requests) = 2
           /\ Len(abortCalls) = 1

\* C7 witness: the window of a 100000-byte file was asked for with
\* 'bytes=34442-99999/100000', holds the whole central directory, and its
\* three entries were delivered.
C7_Witness ==
    /\ Quiescent
    /\ Len(requests) = 2
    /\ requests[2].rangeHeader = "bytes=34442-99999/100000"
    /\ requests[2].response.length = 65558
    /\ Len(gotEntries) = 1
    /\ gotEntries[1].kind = "list"
    /\ Len(gotEntries[1].entries) = 3

\* What the speculative onCompleted parses: the response with the start it
\* settles on.
SettledParse ==
    getEntriesZip64(requests[2].response,
                    ResolvedStart(HeaderLength - 65535 - 23,
                                  requests[2].response, HeaderLength), FALSE)

SettledStart ==
    ResolvedStart(HeaderLength - 65535 - 23, requests[2].response, HeaderLength)

ReportedStart == ToInt(SettledParse.entries[1].centralDirectoryStart)

\* C8: if the parse of the speculative response reports a
\* centralDirectoryStart c with 0 < c < start, one more request is sent with
\* rangeHeader 'bytes=c-(L-1)/L' and no onHeadersReceived, no fourth one, the
\* initial request stays the only one aborted, and when the third request
\* has completed getEntries(thirdResponse, c) has been delivered.
C8_UnderFetchCorrection ==
    (/\ Completed(2)
     /\ SettledParse.kind = "list"
     /\ IsSmall(SettledParse.entries[1].centralDirectoryStart)
     /\ 0 < ReportedStart /\ ReportedStart < SettledStart) =>
        /\ Len(requests) = 3
        /\ requests[3].rangeHeader = RangeText(ReportedStart, HeaderLength)
        /\ ~requests[3].onHeadersReceived
        /\ Len(abortCalls) = 1
        /\ Completed(3) =>
              gotEntries =
                 <<getEntriesZip64(requests[3].response, ReportedStart, FALSE)>>

\* C9: if the speculative request completes with a response of exactly L
\* bytes, the response is parsed with start offset 0, the result is
\* delivered, and no third request is sent (2 requests, 1 abort).
C9_ServerIgnoresRange ==
    (Completed(2) /\ requests[2].response.length = HeaderLength) =>
        /\ Len(requests) = 2
        /\ Len(abortCalls) = 1
        /\ gotEntries = <<getEntriesZip64(requests[2].response, 0, FALSE)>>

\* C10: if the speculative request completes with a response (shorter than
\* L) in which no EOCD record is found, a third request is sent with no range
\* header and no onHeadersReceived, the call has 3 requests and 1 abort, and
\* when the third request has completed getEntries of its body parsed from
\* offset 0 has been delivered.
C10_BogusRangedReply ==
    (/\ Completed(2)
     /\ requests[2].response.length /= HeaderLength
     /\ FindEOCD(requests[2].response) < 0) =>
        /\ Len(requests) = 3
        /\ requests[3].rangeHeader = NoRange
        /\ ~requests[3].onHeadersReceived
        /\ Len(abortCalls) = 1
        /\ Completed(3) =>
              gotEntries = <<getEntriesZip64(requests[3].response, 0, FALSE)>>


\* The calls of one kind in the trace.
CallsOf(kind) == SelectSeq(calls, LAMBDA c : c.call = kind)

\* C11: sendHttpRequest is called at most 3 times, abort at most once and
\* only on the handle of the initial request, and only the initial request
\* is handed an onHeadersReceived callback.
C11_AtMostThreeRequests ==
    /\ Len(requests) <= 3
    /\ Len(CallsOf("sendHttpRequest")) = Len(requests)
    /\ Len(abortCalls) <= 1
    /\ \A i \in 1..Len(abortCalls) : abortCalls[i] = 1
    /\ CallsOf("abort") = [i \in 1..Len(abortCalls) |-> AbortCall(1)]
    /\ \A k \in 1..Len(requests) : requests[k].onHeadersReceived <=> k = 1

\* C11 witness: a call that took all three requests and the one abort.
C11_Witness ==
    /\ Quiescent
    /\ Len(requests) = 3
    /\ abortCalls = <<1>>
    /\ requests[3].state = "completed"


InFlightRequests == {k \in 1..Len(requests) : InFlight(k)}

\* The speculative request is sent right after abort() on the initial handle,
\* in a run whose headers were inspected.
AbortPrecedesSecondRequest ==
    \A i \in 1..Len(calls) :
        calls[i] = SendCall(2) =>
            /\ i > 1
            /\ calls[i - 1] = AbortCall(1)
            /\ headerEvents > 0
            /\ ~StaysOnInitialRequest(length, lastHeaders.acceptRanges)

\* A step that sends the corrective request is the speculative request's
\* onCompleted.
CorrectiveFromSpeculativeOnCompleted ==
    (Len(requests) = 2 /\ Len(requests') = 3) =>
        /\ InFlight(2)
        /\ requests[2].onCompleted = "range"
        /\ requests'[2].state = "completed"

\* C12: at every moment at most one request is in flight; the speculative
\* request is sent only after header inspection decided to switch and abort
\* was called on the initial handle; the corrective request is sent only
\* from within the speculative request's onCompleted.
C12_OneRequestInFlight ==
    /\ [](Cardinality(InFlightRequests) <= 1 /\ AbortPrecedesSecondRequest)
    /\ [][CorrectiveFromSpeculativeOnCompleted]_vars

\* C12 witness: the corrective request is in flight, the initial one was
\* aborted and the speculative one has completed.
C12_Witness ==
    /\ Len(requests) = 3
    /\ InFlightRequests = {3}
    /\ requests[1].state = "aborted"
    /\ requests[2].state = "completed"
    /\ calls = <<SendCall(1), AbortCall(1), SendCall(2), SendCall(3)>>


\* C13: a request carries no range header exactly when its start offset is
\* 0, and otherwise 'bytes=<start>-<L-1>/<L>' with L the Content-Length of
\* the headers and 0 < start < L; the initial start is 0, the speculative
\* start is L - 0xFFFF - 23 >= 34442 and the corrective start is smaller
\* than the speculative one.
C13_RangeHeaderWellFormed ==
    /\ \A k \in 1..Len(requests) :
          /\ requests[k].rangeHeader = NoRange <=> requests[k].first = 0
          /\ requests[k].first /= 0 =>
                /\ requests[k].rangeHeader =
                      RangeText(requests[k].first, HeaderLength)
                /\ 0 < requests[k].first
                /\ requests[k].first < HeaderLength
    /\ Len(requests) >= 1 => requests[1].first = 0
    /\ Len(requests) >= 2 =>
          /\ requests[2].first = HeaderLength - 65535 - 23
          /\ requests[2].first >= 34442
    /\ Len(requests) >= 3 =>
          /\ requests[3].first >= 0
          /\ requests[3].first < requests[2].first

\* C13 witness: the three requests of a 100000-byte file whose central
\* directory starts at 34400, before the speculative window.
C13_Witness ==
    /\ Len(requests) = 3
    /\ requests[1].rangeHeader = NoRange
    /\ requests[2].rangeHeader = "bytes=34442-99999/100000"
    /\ requests[3].rangeHeader = "bytes=34400-99999/100000"


-----------------------------------------------------------------------------
(* More claims about getEntries *)

\* getEntries(F[S+1..], S+1) on a well-formed file with at least one record.
HintOneByteLate ==
    /\ callee = "base"
    /\ WellFormed(zip)
    /\ Len(zip.records) >= 1
    /\ dataStartOffset = zip.prefix + 1
    /\ data = SliceFrom(FileBytes(zip), zip.prefix + 1)

StopsBeforeSecondRecord ==
    \E o \in 0..(RecordSize(zip.records[1]) - 2) : ~RecoveryContinues(data, o)

TranslatedOffset ==
    IF FindEOCD(data) >= 0
    THEN Translate(getUint32(data, FindEOCD(data) + 16), dataStartOffset)
    ELSE 0

RECURSIVE EntryPosition(_)
\* The position element i (2, 3, ...) of the returned list was read from:
\* where the loop started, and from there on behind the record before.
EntryPosition(i) ==
    IF i = 2
    THEN IF NeedsRecovery(data, TranslatedOffset) THEN RecoveryScan(data)
         ELSE TranslatedOffset
    ELSE NextEntryOffset(data, EntryPosition(i - 1))

HoldsEntrySignature(p) ==
    /\ p \in DOMAIN data.bytes /\ data.bytes[p] = 80
    /\ p + 1 \in DOMAIN data.bytes /\ data.bytes[p + 1] = 75
    /\ p + 2 \in DOMAIN data.bytes /\ data.bytes[p + 2] = 1
    /\ p + 3 \in DOMAIN data.bytes /\ data.bytes[p + 3] = 2

\* C15: every element of the returned list but the root was read from a
\* position that holds 50 4B 01 02; when an EOCD record is found and its
\* offset translates to a position in [1, length) that does not hold these
\* bytes, the list is the root with the offset of the EOCD record.
C15_NoGarbageEntries ==
    (callee = "base" /\ returned.kind = "list") =>
        /\ \A i \in 2..Len(returned.entries) :
              /\ HoldsEntrySignature(EntryPosition(i))
              /\ returned.entries[i] = EntryAt(data, EntryPosition(i))
        /\ (/\ FindEOCD(data) >= 0
            /\ TranslatedOffset >= 1 /\ TranslatedOffset < data.length
            /\ ~HoldsEntrySignature(TranslatedOffset)) =>
               returned =
                  Returned(<<RootEntry(getUint32(data, FindEOCD(data) + 16))>>)

\* C15 witness: the EOCD record of the whole file names position 30 and the
\* first byte of the signature there is damaged.
C15_Witness ==
    /\ callee = "base"
    /\ FindEOCD(data) >= 0
    /\ TranslatedOffset = 30
    /\ Byte(data, 30) = 0 /\ Byte(data, 31) = 75
    /\ returned = Returned(<<RootEntry(Num(30))>>)


\* The signature 50 4B 05 06 or 50 4B 01 02 somewhere in the data.
ContainsSignature ==
    \E p \in DOMAIN data.bytes :
        /\ data.bytes[p] = 80
        /\ Byte(data, p + 1) = 75
        /\ \/ Byte(data, p + 2) = 5 /\ Byte(data, p + 3) = 6
           \/ Byte(data, p + 2) = 1 /\ Byte(data, p + 3) = 2

\* C16: a buffer of any length that holds neither the EOCD signature nor the
\* entry signature makes getEntries return the one-element list with the
\* root '/' of size 0 and centralDirectoryStart 0.
C16_NoSignatureGivesRoot ==
    (callee /= "none" /\ ~ContainsSignature) =>
        returned =
           Returned(<<[directory |-> TRUE, filename |-> <<47>>,
                       uncompressedSize |-> Num(0),
                       centralDirectoryStart |-> Num(0)]>>)

\* C16 witness: 0xFFFF + 22 zero bytes, the longest buffer whose EOCD window
\* starts at position 0.
C16_Witness ==
    /\ callee = "base"
    /\ data.length = 65535 + 22
    /\ data.bytes = NoBytes
    /\ Len(returned.entries) = 1


RecoverableSignature ==
    \E p \in DOMAIN data.bytes :
        /\ HoldsEntrySignature(p)
        /\ p < data.length - 46
        /\ \A o \in 0..(p - 1) : RecoveryContinues(data, o)

DataBytes(from, to) ==
    LET t == IF to > data.length THEN data.length ELSE to
    IN  [k \in 1..(IF t > from THEN t - from ELSE 0) |-> Byte(data, from + k - 1)]

\* The call _decodeFilename is to get for the record at position p: the name
\* bytes behind the 46 fixed bytes, and the label bit 11 of the flags (bit 3
\* of the byte at p + 9) selects.
ExpectedDecodeCall(p) ==
    [filename |-> DataBytes(p + 46,
                            p + 46 + Byte(data, p + 28) + 256 * Byte(data, p + 29)),
     utfLabel |-> IF (Byte(data, p + 9) \div 8) % 2 = 1 THEN "utf-8" ELSE "ascii"]

\* C18: _decodeFilename is invoked once for every record parsed, in order,
\* with the record's name bytes and with 'utf-8' if bit 11 of its flags is
\* set and 'ascii' otherwise; it is not invoked for the root, so there are
\* as many calls as elements behind the root, and each of these has the name
\* its call returned.
C18_DecodeFilenameCalls ==
    (callee = "base" /\ returned.kind = "list") =>
        /\ Len(decodeCalls) = Len(returned.entries) - 1
        /\ \A i \in 1..Len(decodeCalls) :
              /\ decodeCalls[i] = ExpectedDecodeCall(EntryPosition(i + 1))
              /\ returned.entries[i + 1].filename =
                    _decodeFilename(decodeCalls[i].filename,
                                    decodeCalls[i].utfLabel)

\* C18 witness: a record whose flags have every bit but bit 11, decoded as
\* 'ascii', before a record with bit 11, decoded as 'utf-8'.
C18_Witness ==
    /\ callee = "base"
    /\ Len(returned.entries) = 3
    /\ decodeCalls = <<[filename |-> <<195, 169>>, utfLabel |-> "ascii"],
                       [filename |-> <<195, 169>>, utfLabel |-> "utf-8"]>>


\* The 4-byte little-endian size field of the record at position p.
SizeField(p) ==
    <<0, 0, Byte(data, p + 26) + 256 * Byte(data, p + 27),
            Byte(data, p + 24) + 256 * Byte(data, p + 25)>>

\* Element i of the returned list is a directory.
IsDirectoryEntry(i) ==
    /\ callee = "base"
    /\ returned.kind = "list"
    /\ i \in 1..Len(returned.entries)
    /\ returned.entries[i].directory

\* C19 as stated: every element whose directory flag is true has
\* uncompressedSize = 0, whatever the size field of its record contains.
C19_AsStated ==
    \A i \in 1..Len(returned.entries) :
        IsDirectoryEntry(i) => returned.entries[i].uncompressedSize = Num(0)

\* C19: the root has uncompressedSize = 0; every other element whose
\* directory flag is true has the value of the 4-byte size field of its
\* record, so it has uncompressedSize = 0 exactly when that field is 0.
C19_DirectorySize ==
    \A i \in 1..Len(returned.entries) :
        IsDirectoryEntry(i) =>
            /\ i = 1 => returned.entries[i].uncompressedSize = Num(0)
            /\ i > 1 => /\ returned.entries[i].uncompressedSize =
                              SizeField(EntryPosition(i))
                        /\ returned.entries[i].uncompressedSize = Num(0)
                              <=> SizeField(EntryPosition(i)) = Num(0)

\* C19 witness: a list with the root, a directory read from a record whose
\* size field is 7, and a file.
C19_Witness ==
    /\ IsDirectoryEntry(1)
    /\ IsDirectoryEntry(2)
    /\ returned.entries[2].filename = <<100, 47>>
    /\ SizeField(EntryPosition(2)) = Num(7)
    /\ Len(returned.entries) = 3

\* The record element i was read from uses a feature the base definition does
\* not support: a size field of 0xFFFFFFFF, flag bit 0 (encrypted) or flag
\* bit 3 (data descriptor).
UsesUnsupportedFeature(i) ==
    /\ callee = "base"
    /\ returned.kind = "list"
    /\ i \in 2..Len(returned.entries)
    /\ \/ SizeField(EntryPosition(i)) = Max32
       \/ Byte(data, EntryPosition(i) + 8) % 2 = 1
       \/ (Byte(data, EntryPosition(i) + 8) \div 8) % 2 = 1

\* C20: an element read from a record whose size field is 0xFFFFFFFF, or
\* whose flags mark it encrypted or data-descriptor based, has
\* uncompressedSize = 0.
C20_UnsupportedReportZero ==
    \A i \in 2..Len(returned.entries) :
        UsesUnsupportedFeature(i) =>
            returned.entries[i].uncompressedSize = Num(0)

-----------------------------------------------------------------------------
(* More claims about runGetEntriesOverHttp *)

\* Request k completed with a zero-length body.
CompletedEmpty(k) == Completed(k) /\ requests[k].response.length = 0

\* What getEntries makes of an empty buffer.
RootOnly == Returned(<<RootEntry(Num(0))>>)

FirstResponseParsed ==
    LET outcome == IF transport = "xhr"
                   THEN getEntries(requests[1].response, 0)
                   ELSE getEntriesZip64(requests[1].response, Undefined, FALSE)
    IN  IF outcome.kind = "throw"
        THEN gotEntries = <<>> /\ uncaught = <<outcome.error>>
        ELSE gotEntries = <<outcome>> /\ uncaught = <<>>

\* The first request is left to finish: no abort, no second request, and its
\* response, once there, is passed to getEntries.
LeftToFinish ==
    /\ Len(requests) = 1
    /\ requests[1].rangeHeader = NoRange
    /\ abortCalls = <<>>
    /\ Completed(1) => FirstResponseParsed

HeaderAbsent ==
    lastHeaders.contentLength = Null \/ lastHeaders.acceptRanges = Null

C23_BrowserCallbackOnce ==
    transport = "browser" =>
        /\ Len(gotEntries) <= 1
        /\ Quiescent => /\ Len(gotEntries) = 1
                        /\ gotEntries[1].kind = "list"

\* C24: every request the browser's sendHttpRequest is handed with a
\* rangeHeader that is not falsy is sent, with that Range header, and a
\* handle is returned: sendHttpRequest does not fail before x.send().
C24_RangeHeaderSent ==
    transport = "browser" =>
        \A k \in 1..Len(requests) :
            requests[k].rangeHeader /= NoRange =>
                /\ requests[k].state /= "unsent"
                /\ uncaught = <<>>

\* abort() has been called on the handle of request k.
AbortCalled(k) == \E i \in 1..Len(abortCalls) : abortCalls[i] = k

\* A step that completes no request abort() has been called on.
NoCompletionAfterAbort ==
    transport \in {"browser", "greasemonkey"} =>
        \A k \in 1..Len(requests) :
            AbortCalled(k) => requests'[k].state /= "completed"

\* C25: with the sendHttpRequest of zipinfo_browser.js and with that of
\* zipinfo_greasemonkey.js, no step invokes params.onCompleted of a request
\* on whose handle abort() has been called, whatever events the request
\* object fires after the abort.
C25_AbortDiscardsOutcome == [][NoCompletionAfterAbort]_vars

\* C25 witness: the GreaseMonkey request object of the aborted first request
\* has fired events after abort(), and the second request has completed.
C25_Witness ==
    /\ transport = "greasemonkey"
    /\ AbortCalled(1)
    /\ requests[1].state = "aborted"
    /\ lateEvents >= 1
    /\ Completed(2)

-----------------------------------------------------------------------------
(* Claims about the later definition of getEntries, and about calling twice *)

\* C26: the later, ZIP64-capable definition of getEntries returns, for every
\* buffer and start offset, an array whose first element is the '/'
\* directory; it does not throw and does not return undefined.
C26_Zip64GetEntriesTotal ==
    callee \in {"zip64", "zip64 includeOffset"} =>
        /\ returned.kind = "list"
        /\ Len(returned.entries) >= 1
        /\ returned.entries[1].directory
        /\ returned.entries[1].filename = <<47>>

-----------------------------------------------------------------------------
(* Claims about concurrent calls *)

NothingDelivered == gotEntries = <<>> /\ uncaught = <<>>

\* What "onGotEntries(ZipInfo.getEntries(response, first))" has left when it
\* is the one delivery of the call.
DeliveredParse(response, first) ==
    LET outcome == getEntriesZip64(response, first, FALSE)
    IN  IF outcome.kind = "throw"
        THEN gotEntries = <<>> /\ uncaught = <<outcome.error>>
        ELSE gotEntries = <<outcome>> /\ uncaught = <<>>

\* The requests, aborts and deliveries of a call that runs alone, as its own
\* headers and the responses to its own requests determine them.
RunsAsAlone ==
    LET L == HeaderLength
        S == L - 65535 - 23
    IN  Started =>
        /\ requests[1].rangeHeader = NoRange
        /\ IF HeadersStay
           THEN /\ Len(requests) = 1
                /\ abortCalls = <<>>
                /\ calls[1] = SendCall(1)
                /\ IF Completed(1)
                   THEN DeliveredParse(requests[1].response, Undefined)
                   ELSE NothingDelivered
           ELSE /\ Len(requests) \in {2, 3}
                /\ abortCalls = <<1>>
                /\ requests[1].state = "aborted"
                /\ SubSeq(calls, 1, 3) = <<SendCall(1), AbortCall(1), SendCall(2)>>
                /\ requests[2].rangeHeader = RangeText(S, L)
                /\ requests[2].first = S
                /\ IF ~Completed(2)
                   THEN Len(requests) = 2 /\ NothingDelivered
                   ELSE
                   LET first == IF requests[2].response.length = L THEN 0 ELSE S
                       outcome == getEntriesZip64(requests[2].response, first, FALSE)
                   IN  IF outcome.kind = "throw"
                       THEN /\ Len(requests) = 2
                            /\ gotEntries = <<>>
                            /\ uncaught = <<outcome.error>>
                       ELSE IF outcome.kind = "undefined"
                       THEN /\ Len(requests) = 2
                            /\ gotEntries = <<>>
                            /\ uncaught = <<"TypeError">>
                       ELSE IF CoversDirectory(outcome.entries, first)
                       THEN /\ Len(requests) = 2
                            /\ gotEntries = <<outcome>>
                            /\ uncaught = <<>>
                       ELSE
                       LET D == ToInt(outcome.entries[1].centralDirectoryStart)
                       IN  /\ Len(requests) = 3
                           /\ requests[3].first = D
                           /\ requests[3].rangeHeader =
                                 IF D = 0 THEN NoRange ELSE RangeText(D, L)
                           /\ IF Completed(3)
                              THEN DeliveredParse(requests[3].response, D)
                              ELSE NothingDelivered

\* C27: with two top-level calls whose callbacks interleave in any order,
\* each call sends the requests (order, range headers, aborts) and delivers
\* the entries that its own headers and the responses to its own requests
\* determine, exactly as a call that runs alone does.
C27_ConcurrentCallsIndependent ==
    other /= NoSession => RunsAsAlone

\* C27 witness: one call has delivered after three requests, the other one,
\* for a file of another length, after two.
C27_Witness ==
    /\ other /= NoSession
    /\ Len(requests) = 3
    /\ Len(gotEntries) = 1
    /\ other.served /= served
    /\ other.start /= start
    /\ Len(other.requests) = 2
    /\ Len(other.gotEntries) = 1
    /\ RunsAsAlone

\* A call that runs alone does as RunsAsAlone says.
AloneRunsAsAlone ==
    other = NoSession => RunsAsAlone

-----------------------------------------------------------------------------
(* Claims about the speculative window and the recovery scan *)

\* The call is for the speculative window of a file of 100000 bytes or more
\* whose EOCD record lies at most 0xFFFF bytes before the last 22.
WindowCall ==
    /\ callee = "base"
    /\ zip.form = "archive"
    /\ FileLength(zip) >= 100000
    /\ EOCDStart(zip) >= FileLength(zip) - 22 - 65535
    /\ dataStartOffset = SpeculativeStart(FileLength(zip))
    /\ data = SliceFrom(FileBytes(zip), dataStartOffset)

\* C29: the window from L - 0xFFFF - 23 to the end of a file of L >= 100000
\* bytes holds the whole EOCD record wherever it lies in the last 22 + 0xFFFF
\* bytes; getEntries finds in the window the EOCD record it finds in the
\* file and reports the same centralDirectoryStart; the window is shorter
\* than the file, so it is not taken for a full-length response.
C29_WindowCoversEOCD ==
    WindowCall =>
        /\ dataStartOffset <= EOCDStart(zip)
        /\ EOCDStart(zip) + 22 <= dataStartOffset + data.length
        /\ FindEOCD(data) >= 0
        /\ FindEOCD(data) + dataStartOffset = FindEOCD(FileBytes(zip))
        /\ returned.kind = "list"
        /\ returned.entries[1].centralDirectoryStart =
              getEntries(FileBytes(zip), Undefined).entries[1].centralDirectoryStart
        /\ returned.entries[1].centralDirectoryStart = Num(zip.prefix)
        /\ data.length /= FileLength(zip)
        /\ ResolvedStart(dataStartOffset, data, FileLength(zip)) = dataStartOffset

\* C29 witness: the EOCD record of a file of 100000 bytes has a comment of
\* 0xFFFF bytes and so lies at position 1 of the window.
C29_Witness ==
    /\ WindowCall
    /\ FileLength(zip) = 100000
    /\ EOCDStart(zip) = 100000 - 22 - 65535
    /\ FindEOCD(data) = 1
    /\ returned.entries[1].centralDirectoryStart = Num(zip.prefix)

\* The positions at which the four bytes 50 4B 01 02 occur in the data.
SignaturePositions == {o \in DOMAIN data.bytes : HoldsEntrySignature(o)}

\* The end of the range the entry loop reads records from.
LoopEnd ==
    EntryEnd(IF FindEOCD(data) >= 0 THEN FindEOCD(data) ELSE data.length)

\* C30: when the translated central-directory offset is not in [1, length),
\* parsing starts at the least position at which the four bytes 50 4B 01 02
\* occur: if there is such a position (with room for a record behind it) the
\* entry at it is returned, and if there is none only the root is returned.
C30_RecoveryAsSpecified ==
    (/\ callee = "base"
     /\ returned.kind = "list"
     /\ NeedsRecovery(data, TranslatedOffset)) =>
        IF SignaturePositions = {}
        THEN Len(returned.entries) = 1
        ELSE SetMin(SignaturePositions) < LoopEnd =>
                /\ Len(returned.entries) >= 2
                /\ EntryPosition(2) = SetMin(SignaturePositions)

\* One of the four bytes at p, p + 1, p + 2, p + 3 is the one a
\* central-directory signature has there.
SingleByteMatch(p) ==
    \/ (p \in DOMAIN data.bytes /\ data.bytes[p] = 80)
    \/ (p + 1 \in DOMAIN data.bytes /\ data.bytes[p + 1] = 75)
    \/ (p + 2 \in DOMAIN data.bytes /\ data.bytes[p + 2] = 1)
    \/ (p + 3 \in DOMAIN data.bytes /\ data.bytes[p + 3] = 2)

\* The positions with a single-byte match: each lies at most three below a
\* listed byte of the buffer.
SingleByteMatches ==
    {p \in {q - k : q \in DOMAIN data.bytes, k \in 0..3} :
        p >= 0 /\ p < data.length /\ SingleByteMatch(p)}

\* The smallest position with a single-byte match, or the length.
LiteralStop ==
    IF SingleByteMatches = {} THEN data.length ELSE SetMin(SingleByteMatches)

\* C31: in recovery mode the parse starts at the smallest position at which
\* one of the four signature bytes matches (the length if there is none); the
\* list holds more than the root only if that position holds the whole
\* signature, and whenever a single-byte match lies below the first whole
\* signature of the buffer the list is the root alone.
C31_LiteralRecoveryScan ==
    (/\ callee = "base"
     /\ returned.kind = "list"
     /\ NeedsRecovery(data, TranslatedOffset)) =>
        /\ EntryPosition(2) = LiteralStop
        /\ Len(returned.entries) >= 2 =>
              /\ HoldsEntrySignature(LiteralStop)
              /\ returned.entries[2] = EntryAt(data, LiteralStop)
        /\ (/\ SignaturePositions /= {}
            /\ LiteralStop < SetMin(SignaturePositions)) =>
                Len(returned.entries) = 1

\* A recovery over a buffer with a whole signature (and room for its record)
\* behind an earlier single-byte match: the root alone is returned.
C31_Witness ==
    /\ callee = "base"
    /\ returned.kind = "list"
    /\ NeedsRecovery(data, TranslatedOffset)
    /\ SignaturePositions /= {}
    /\ LiteralStop < SetMin(SignaturePositions)
    /\ SetMin(SignaturePositions) < LoopEnd
    /\ Len(returned.entries) = 1

\* The positions i with max(0, length - 22 - 0xFFFF) <= i <= length - 22 at
\* which the four bytes 50 4B 05 06 stand.
SignaturesInWindow ==
    {i \in DOMAIN data.bytes :
        /\ i <= data.length - 22
        /\ i >= data.length - 22 - 65535
        /\ i + 1 \in DOMAIN data.bytes /\ i + 2 \in DOMAIN data.bytes
        /\ i + 3 \in DOMAIN data.bytes
        /\ <<data.bytes[i], data.bytes[i + 1], data.bytes[i + 2],
             data.bytes[i + 3]>> = <<80, 75, 5, 6>>}

\* C32: the EOCD record used is the one at the greatest position of the
\* window max(0, length - 22 - 0xFFFF) .. length - 22 that holds 50 4B 05 06:
\* its offset field is the root's centralDirectoryStart and, unless the
\* parser recovers, its entry count bounds the entries; with no signature in
\* the window (a shorter buffer, a signature outside it) no record is used.
C32_EOCDSelection ==
    (callee = "base" /\ returned.kind = "list") =>
        IF SignaturesInWindow = {}
        THEN /\ returned.entries[1].centralDirectoryStart = Num(0)
             /\ EntryPosition(2) = LiteralStop
        ELSE LET e == SetMax(SignaturesInWindow)
             IN  /\ returned.entries[1].centralDirectoryStart
                        = getUint32(data, e + 16)
                 /\ ~NeedsRecovery(data, TranslatedOffset) =>
                        Len(returned.entries) - 1 <= getUint16(data, e + 8)

\* Two signatures in the window whose records name different offsets: the
\* root carries the offset of the one nearest the end.
C32_Witness ==
    /\ callee = "base"
    /\ returned.kind = "list"
    /\ Cardinality(SignaturesInWindow) >= 2
    /\ getUint32(data, SetMin(SignaturesInWindow) + 16)
          /= getUint32(data, SetMax(SignaturesInWindow) + 16)
    /\ returned.entries[1].centralDirectoryStart
          = getUint32(data, SetMax(SignaturesInWindow) + 16)

\* A buffer that holds an EOCD signature but none in the window.
C32_OutsideWindow ==
    /\ callee = "base"
    /\ returned.kind = "list"
    /\ SignaturesInWindow = {}
    /\ \E i \in DOMAIN data.bytes : IsEOCDSignature(data, i)

\* E: the EOCD entry count when the EOCD offset is used, 0xFFFF in recovery.
EntryBudget ==
    IF NeedsRecovery(data, TranslatedOffset) THEN 65535
    ELSE getUint16(data, FindEOCD(data) + 8)

\* How often the body of the entry loop ran: once for each entry pushed, and
\* once more when the loop was left by the signature check.
LoopRuns ==
    LET pushed == Len(returned.entries) - 1
    IN  pushed + (IF /\ EntryBudget - pushed >= 1
                     /\ EntryPosition(pushed + 2) < LoopEnd
                  THEN 1 ELSE 0)

\* C33: a base call returns; every iteration that pushes an entry moves the
\* parse offset forward by at least 46; the body of the loop runs at most
\* min(E, length \div 46) times; the list has at most E + 1 and at most
\* 0xFFFF + 1 elements.
C33_BoundedLoop ==
    callee = "base" =>
        /\ returned.kind = "list"
        /\ \A i \in 2..Len(returned.entries) :
              EntryPosition(i + 1) >= EntryPosition(i) + 46
        /\ LoopRuns <= EntryBudget
        /\ LoopRuns <= data.length \div 46
        /\ Len(returned.entries) <= EntryBudget + 1
        /\ Len(returned.entries) <= 65535 + 1

\* The entry count stops the loop in front of a further record: the loop ran
\* E times, and a signature stands where it would have gone on.
C33_Witness ==
    /\ callee = "base"
    /\ returned.kind = "list"
    /\ ~NeedsRecovery(data, TranslatedOffset)
    /\ EntryBudget >= 1
    /\ LoopRuns = EntryBudget
    /\ HoldsEntrySignature(EntryPosition(Len(returned.entries) + 1))
    /\ EntryPosition(Len(returned.entries) + 1) < LoopEnd

\* The length stops the loop: a recovery whose loop ran as often as the
\* buffer has room for 46 bytes.
C33_LengthBound ==
    /\ callee = "base"
    /\ returned.kind = "list"
    /\ NeedsRecovery(data, TranslatedOffset)
    /\ LoopRuns >= 1
    /\ LoopRuns = data.length \div 46

\* e: the position of the EOCD record, or the length when none was found.
EndOfDirectory ==
    IF FindEOCD(data) >= 0 THEN FindEOCD(data) ELSE data.length

\* C34: a record starting at offset o is examined whenever entries remain and
\* o + 46 <= e: the entry loop never stops in front of a position that holds
\* a central-directory signature, has 46 bytes before e and has an entry left
\* for it; a 46-byte record ending where the EOCD begins is emitted.
C34_EndBoundary ==
    (callee = "base" /\ returned.kind = "list") =>
        LET pushed == Len(returned.entries) - 1
            o == EntryPosition(pushed + 2)
        IN  ~(/\ EntryBudget - pushed >= 1
              /\ o + 46 <= EndOfDirectory
              /\ HoldsEntrySignature(o))

\* The list the base getEntries returns for the buffer and hint of the call.
BaseList == getEntries(data, dataStartOffset).entries

\* The EOCD record found names neither the offset 0xFFFFFFFF nor the entry
\* count 0xFFFF, and no record the base parser reads has 0xFFFFFFFF as its
\* compressed size, uncompressed size or local-header offset.
NoZip64Marker ==
    /\ FindEOCD(data) >= 0 =>
          /\ getUint32(data, FindEOCD(data) + 16) /= Max32
          /\ getUint16(data, FindEOCD(data) + 8) /= 65535
    /\ \A i \in 2..Len(BaseList) :
          /\ getUint32(data, EntryPosition(i) + 20) /= Max32
          /\ getUint32(data, EntryPosition(i) + 24) /= Max32
          /\ getUint32(data, EntryPosition(i) + 42) /= Max32

\* C35: on a buffer and start offset without a ZIP64 marker, the
\* ZIP64-capable getEntries called with a falsy includeOffset returns the
\* list the base getEntries returns.
C35_Zip64RefinesBase ==
    (callee = "zip64" /\ NoZip64Marker) =>
        returned = getEntries(data, dataStartOffset)

\* A ZIP64-capable call without a marker that lists two records.
C35_Witness ==
    /\ callee = "zip64"
    /\ NoZip64Marker
    /\ returned.kind = "list"
    /\ Len(returned.entries) = 3

-----------------------------------------------------------------------------
(* Claims about the transports *)

\* The positions (from 0) of the header text at which a line starts with the
\* name, in any case, a colon and a space.
HeaderStarts(text, name) ==
    {i \in 0..Len(text) :
        /\ i = 0 \/ (i >= 2 /\ text[i - 1] = "\r" /\ text[i] = "\n")
        /\ i + Len(name) + 2 <= Len(text)
        /\ \A k \in 1..Len(name) :
              toLowerCase(<<text[i + k]>>) = toLowerCase(<<name[k]>>)
        /\ text[i + Len(name) + 1] = ":"
        /\ text[i + Len(name) + 2] = " "}

\* The text between 'Name: ' and the next CRLF (or the end of the text).
HeaderValue(text, name) ==
    LET from == SetMin(HeaderStarts(text, name)) + Len(name) + 3
        ends == {j \in from..Len(text) :
                    j < Len(text) /\ text[j] = "\r" /\ text[j + 1] = "\n"}
        to == IF ends = {} THEN Len(text) ELSE SetMin(ends) - 1
    IN  [k \in 1..(to - from + 1) |-> text[from + k - 1]]

\* undefined, null and '' are falsy.
Falsy(value) == value \in {UndefinedHeader, Null, <<>>}

\* What the getter gave for a name is that header's value, or is falsy when
\* the text has no such header.
GetterGave(got, name) ==
    IF HeaderStarts(lastHeaders.responseHeaders, name) = {}
    THEN Falsy(got)
    ELSE got = HeaderValue(lastHeaders.responseHeaders, name)

\* The headers of the latest delivery read 'Content-Length: L' with
\* L >= 100000 and 'Accept-Ranges: bytes'.
HeadersAskForRange ==
    /\ HeaderStarts(lastHeaders.responseHeaders, ContentLengthName) /= {}
    /\ HeaderStarts(lastHeaders.responseHeaders, AcceptRangesName) /= {}
    /\ OrZero(parseInt(HeaderValue(lastHeaders.responseHeaders,
                                   ContentLengthName))) >= 100000
    /\ HeaderValue(lastHeaders.responseHeaders, AcceptRangesName) = Bytes

SwitchedToRange ==
    \E k \in 1..Len(requests) : requests[k].onCompleted = "range"

GetterAsClaimedIn(transports) ==
    (transport \in transports /\ headerEvents >= 1) =>
        /\ GetterGave(lastHeaders.contentLength, ContentLengthName)
        /\ GetterGave(lastHeaders.acceptRanges, AcceptRangesName)
        /\ HeadersAskForRange => SwitchedToRange

\* C36: in each GreaseMonkey transport the function handed to
\* onHeadersReceived returns, for a header name matched in any case, that
\* header's value and a falsy value when the header is absent, so that
\* 'Content-Length: L' with L >= 100000 and 'Accept-Ranges: bytes' make
\* runGetEntriesOverHttp send a range request.
C36_GreaseMonkeyGetter == GetterAsClaimedIn(GreaseMonkeyTransports)

\* The same of zipinfo_greasemonkey.js alone.
C36_CurrentGetter == GetterAsClaimedIn({"greasemonkey"})

\* zipinfo_greasemonkey.js switched to a range request on such headers.
C36_CurrentSwitches ==
    /\ transport = "greasemonkey"
    /\ headerEvents >= 1
    /\ HeadersAskForRange
    /\ SwitchedToRange

\* The headers of the latest delivery trigger the strategy switch.
HeadersTriggerSwitch ==
    /\ headerEvents >= 1
    /\ ~(OrZero(parseInt(lastHeaders.contentLength)) < 100000)
    /\ lastHeaders.acceptRanges = Bytes

\* abort() was called once, on the handle of the initial request, and the
\* ranged request was sent right after it.
AbortedOnceThenRanged ==
    /\ abortCalls = <<1>>
    /\ Len(calls) >= 3
    /\ SubSeq(calls, 1, 3) = <<SendCall(1), AbortCall(1), SendCall(2)>>
    /\ \A i \in 4..Len(calls) : calls[i] /= AbortCall(1)
    /\ requests[2].rangeHeader /= NoRange

SwitchAbortsOnceIn(transports) ==
    (transport \in transports /\ HeadersTriggerSwitch) => AbortedOnceThenRanged

\* C37: whenever the initial headers trigger the strategy switch, abort() is
\* called exactly once on the initial request's handle before the ranged
\* request is sent, also when the transport calls onHeadersReceived from
\* inside sendRequest, before the handle has been returned.
C37_AbortBeforeRangedRequest ==
    SwitchAbortsOnceIn({"contract", "synchronous"})

\* The same for a transport that calls onHeadersReceived after sendRequest
\* has returned.
C37_Asynchronous == SwitchAbortsOnceIn({"contract"})

\* An asynchronous delivery that switched.
C37_AsynchronousSwitch ==
    /\ transport = "contract"
    /\ HeadersTriggerSwitch
    /\ AbortedOnceThenRanged

=============================================================================
